---------------------------- MODULE Spec2Model ----------------------------
(***************************************************************************)
(* RB3Enhanced music video player: the UDP event listener, the game-state  *)
(* machine, the song accumulator, the YouTube matcher and the VLC player,  *)
(* as implemented in rb3_gui_player.py ("gui") and rb3_player_nogui.py     *)
(* ("nogui").  The two programs share most code; where they differ the     *)
(* model branches on the variable `variant`.                               *)
(*                                                                         *)
(* Text is a sequence of code points, bytes are a sequence of 0..255.      *)
(* A handler of the program is an operator from a listener state record    *)
(* to the SET of records it can end in: one element per outcome of the     *)
(* collaborators it calls (YouTube search, yt-dlp, the VLC process).       *)
(***************************************************************************)
EXTENDS Integers, Sequences, FiniteSets, TLC

(***************************************************************************)
(* Text helpers (Python str / bytes operations used by the program)        *)
(***************************************************************************)

\* str.isspace() / the regex class \s for one code point
IsSpace(c) == c \in {9, 10, 11, 12, 13, 28, 29, 30, 31, 32, 133, 160}

\* str.lower() for one code point (ASCII letters)
LowerChar(c) == IF c >= 65 /\ c <= 90 THEN c + 32 ELSE c

\* str.lower()
Lower(s) == [i \in 1..Len(s) |-> LowerChar(s[i])]

\* s[i:] for a 1-based index i (empty when i is past the end)
From(s, i) == IF i > Len(s) THEN <<>> ELSE SubSeq(s, i, Len(s))

\* s[:i] for a 1-based inclusive index i
UpTo(s, i) == IF i < 1 THEN <<>> ELSE SubSeq(s, 1, IF i > Len(s) THEN Len(s) ELSE i)

\* s.startswith(p)
StartsWith(s, p) == Len(p) <= Len(s) /\ SubSeq(s, 1, Len(p)) = p

\* the Python expression  sub in s
Contains(sub, s) ==
    \E i \in 1..(Len(s) + 1) : StartsWith(From(s, i), sub)

\* number of leading whitespace code points of s
LeadingSpaces(s) ==
    IF \A i \in 1..Len(s) : IsSpace(s[i]) THEN Len(s)
    ELSE (CHOOSE i \in 1..Len(s) : ~IsSpace(s[i]) /\ \A j \in 1..(i - 1) : IsSpace(s[j])) - 1

\* str.lstrip()
LStrip(s) == From(s, LeadingSpaces(s) + 1)

\* str.rstrip()
RStrip(s) ==
    IF \A i \in 1..Len(s) : IsSpace(s[i]) THEN <<>>
    ELSE UpTo(s, CHOOSE i \in 1..Len(s) : ~IsSpace(s[i]) /\ \A j \in (i + 1)..Len(s) : IsSpace(s[j]))

\* str.strip()
Strip(s) == LStrip(RStrip(s))

\* (mutant of RStripNul) the trailing NUL bytes are kept
RStripNul_Keep(b) == b

\* bytes.rstrip(b'\x00')
RStripNul(b) ==
    IF \A i \in 1..Len(b) : b[i] = 0 THEN <<>>
    ELSE UpTo(b, CHOOSE i \in 1..Len(b) : b[i] # 0 /\ \A j \in (i + 1)..Len(b) : b[j] = 0)

IsCont(b) == b >= 128 /\ b <= 191

\* length of the well-formed UTF-8 sequence that starts b, 0 when there is none
Utf8SeqLen(b) ==
    IF b = <<>> THEN 0
    ELSE IF b[1] < 128 THEN 1
    ELSE IF b[1] >= 194 /\ b[1] <= 223 /\ Len(b) >= 2 /\ IsCont(b[2]) THEN 2
    ELSE IF b[1] >= 224 /\ b[1] <= 239 /\ Len(b) >= 3 /\ IsCont(b[2]) /\ IsCont(b[3])
            /\ (b[1] = 224 => b[2] >= 160) /\ (b[1] = 237 => b[2] <= 159) THEN 3
    ELSE IF b[1] >= 240 /\ b[1] <= 244 /\ Len(b) >= 4 /\ IsCont(b[2]) /\ IsCont(b[3])
            /\ IsCont(b[4]) /\ (b[1] = 240 => b[2] >= 144) /\ (b[1] = 244 => b[2] <= 143) THEN 4
    ELSE 0

\* the code point of the well-formed sequence of length n that starts b
Utf8CodePoint(b, n) ==
    IF n = 1 THEN b[1]
    ELSE IF n = 2 THEN (b[1] - 192) * 64 + (b[2] - 128)
    ELSE IF n = 3 THEN (b[1] - 224) * 4096 + (b[2] - 128) * 64 + (b[3] - 128)
    ELSE (b[1] - 240) * 262144 + (b[2] - 128) * 4096 + (b[3] - 128) * 64 + (b[4] - 128)

\* bytes.decode('utf-8', errors='ignore'): bytes outside a well-formed sequence are dropped
RECURSIVE DecodeUtf8Ignore(_)
DecodeUtf8Ignore(b) ==
    IF b = <<>> THEN <<>>
    ELSE LET n == Utf8SeqLen(b)
         IN  IF n = 0 THEN DecodeUtf8Ignore(Tail(b))
             ELSE <<Utf8CodePoint(b, n)>> \o DecodeUtf8Ignore(From(b, n + 1))

(***************************************************************************)
(* YouTubeSearcher.clean_search_terms                                      *)
(***************************************************************************)

\* re.sub(r'\s*\([^)]*\)\s*', '', song)
RECURSIVE StripParens(_)
StripParens(s) ==
    IF ~\E i \in 1..Len(s) : s[i] = 40 /\ \E j \in (i + 1)..Len(s) : s[j] = 41 THEN s
    ELSE LET i == CHOOSE k \in 1..Len(s) : s[k] = 40 /\ \A m \in 1..(k - 1) : s[m] # 40
             j == CHOOSE k \in (i + 1)..Len(s) : s[k] = 41 /\ \A m \in (i + 1)..(k - 1) : s[m] # 41
         IN  RStrip(UpTo(s, i - 1)) \o StripParens(LStrip(From(s, j + 1)))

ModifierWords ==
    { <<108, 105, 118, 101>>,                       \* live
      <<97, 99, 111, 117, 115, 116, 105, 99>>,      \* acoustic
      <<100, 101, 109, 111>>,                       \* demo
      <<114, 101, 109, 105, 120>> }                 \* remix

\* s[i] is a '-' followed by optional whitespace and one of the modifier words
ModifierAt(s, i) ==
    /\ s[i] = 45
    /\ \E w \in ModifierWords : StartsWith(Lower(LStrip(From(s, i + 1))), w)

\* re.sub(r'\s*-\s*(Live|Acoustic|Demo|Remix).*', '', song, flags=re.IGNORECASE)
\* ('.' does not match a newline, so a match ends at the end of its line)
RECURSIVE StripModifier(_)
StripModifier(s) ==
    IF ~\E i \in 1..Len(s) : ModifierAt(s, i) THEN s
    ELSE LET i == CHOOSE k \in 1..Len(s) : ModifierAt(s, k) /\ \A m \in 1..(k - 1) : ~ModifierAt(s, m)
             w == i + 1 + LeadingSpaces(From(s, i + 1))
             e == IF \E k \in w..Len(s) : s[k] = 10
                  THEN CHOOSE k \in w..Len(s) : s[k] = 10 /\ \A m \in w..(k - 1) : s[m] # 10
                  ELSE Len(s) + 1
         IN  RStrip(UpTo(s, i - 1)) \o StripModifier(From(s, e))

FeatWords ==
    { <<102, 101, 97, 116, 46>>,                          \* feat.
      <<102, 116, 46>>,                                   \* ft.
      <<102, 101, 97, 116, 117, 114, 105, 110, 103>> }    \* featuring

\* a match of \s+(?:feat\.|ft\.|featuring)\s+ starts at s[i]
FeatAt(s, i) ==
    /\ IsSpace(s[i])
    /\ \E w \in FeatWords :
          LET r == Lower(LStrip(From(s, i)))
          IN  StartsWith(r, w) /\ Len(r) > Len(w) /\ IsSpace(r[Len(w) + 1])

\* (mutant of SplitFeat) the featured artists stay in the search terms
SplitFeat_Keep(s) == s

\* re.split(r'\s+(?:feat\.|ft\.|featuring)\s+', artist, flags=re.IGNORECASE)[0]
SplitFeat(s) ==
    IF ~\E i \in 1..Len(s) : FeatAt(s, i) THEN s
    ELSE UpTo(s, (CHOOSE k \in 1..Len(s) : FeatAt(s, k) /\ \A m \in 1..(k - 1) : ~FeatAt(s, m)) - 1)

\* clean_search_terms(artist, song) = <<clean_artist, clean_song>>
clean_search_terms(artist, song) ==
    << Strip(SplitFeat(artist)), Strip(StripModifier(StripParens(song))) >>


(***************************************************************************)
(* Program state                                                           *)
(***************************************************************************)

VARIABLES
    variant,         \* "gui" (rb3_gui_player.py) or "nogui" (rb3_player_nogui.py)
    youtube,         \* YouTubeSearcher.youtube is an API client (TRUE) or None (FALSE)
    settings,        \* gui: RB3EventListener.settings; nogui: the module-level configuration
    game_state,      \* RB3EventListener.game_state
    current_song,    \* RB3EventListener.current_song   ("" is <<>>)
    current_artist,  \* RB3EventListener.current_artist ("" is <<>>)
    pending_video,   \* RB3EventListener.pending_video: None or <<stream_url, video_id, artist, song>>
    search_cache,    \* YouTubeSearcher.search_cache: a function from search key to video id
    played_videos,   \* VLCPlayer.played_videos
    current_process, \* VLCPlayer.current_process: "none", "running" or "exited"
    last,            \* the datagram the receive loop processed in the last step (<<>> if none),
                     \* and whether process_packet ended with an exception
    calls,           \* what processing that datagram called and logged, in order
    thread           \* the listener thread, its socket, and what its starter believes

vars == << variant, youtube, settings, game_state, current_song, current_artist,
           pending_video, search_cache, played_videos, current_process, last, calls,
           thread >>

\* Python None, for the optional video id and the optional pending record / url
NoneId == 0
None == <<>>

\* one entry of `calls`; `items` is the candidate list a Search call returned
Entry(op, id, txt, res) == [op |-> op, id |-> id, txt |-> txt, res |-> res, items |-> <<>>]

Log(s, e) == [s EXCEPT !.calls = Append(@, e)]

(***************************************************************************)
(* The collaborators: what the YouTube API, yt-dlp and the VLC process can *)
(* answer.  Two families of songs exist.  For the artist "Q" (song "B")    *)
(* every answer is possible.      For the set list of artist "P" (songs   *)
(* "a", "b", ...) the services are reliable and song i resolves to its own *)
(* video, so that a long run of distinct successful plays is reachable.    *)
(***************************************************************************)

ArtistQ == <<81>>
SongB == <<66>>
ArtistP == <<80>>

\* the size of VLCPlayer.played_videos above which an entry is popped
PlayedCap == 10

\* songs of the set list beyond PlayedCap
ExtraSongs == 1

SetListLen == PlayedCap + ExtraSongs

SetListSong(i) == <<96 + i>>

SetListId(i) == 10 + i

\* a search result item: item['id']['videoId'], snippet.title, snippet.channelTitle
Item(id, title, channel) == [id |-> id, title |-> title, channel |-> channel]

Response(raises, items) == [raises |-> raises, items |-> items]

ItemQB == Item(1, <<81, 32, 45, 32, 66>>, <<120>>)     \* "Q - B" on channel "x"
ItemZ == Item(2, <<90>>, <<121>>)                       \* "Z" on channel "y"

\* The artist "Foo" and the song "Song": every list of up to MaxItems distinct
\* items of FooPool can be the answer to a query for them.
Foo == <<70, 111, 111>>
Song == <<83, 111, 110, 103>>

\* the longest candidate list
MaxItems == 2

FooPool ==
    { Item(3, <<70, 111, 111, 32, 45, 32, 83, 111, 110, 103, 32, 40, 79, 102, 102, 105, 99, 105, 97, 108, 32, 86, 105, 100, 101, 111, 41>>, <<120>>),    \* "Foo - Song (Official Video)" on channel "x"
      Item(4, <<90>>, <<70, 111, 111, 32, 70, 97, 110, 115>>),     \* "Z" on channel "Foo Fans"
      Item(5, <<90>>, <<66, 105, 103, 32, 82, 101, 99, 111, 114, 100, 115>>),     \* "Z" on channel "Big Records"
      Item(6, <<90>>, <<79, 70, 70, 73, 67, 73, 65, 76>>),     \* "Z" on channel "OFFICIAL"
      Item(7, <<90>>, <<77, 117, 115, 105, 99, 32, 84, 86>>),     \* "Z" on channel "Music TV"
      Item(8, <<83, 111, 110, 103>>, <<121>>),    \* "Song" on channel "y"
      Item(9, <<70, 111, 111>>, <<121>>) }   \* "Foo" on channel "y"

RECURSIVE ItemLists(_)
ItemLists(n) ==
    IF n = 0 THEN { <<>> }
    ELSE LET shorter == ItemLists(n - 1)
         IN  shorter \cup UNION { { Append(l, i) : i \in { c \in FooPool :
                                                            \A j \in 1..Len(l) : l[j] # c } }
                                   : l \in shorter }

\* the possible outcomes of youtube.search().list(q=query, ...).execute()
SearchResponses(query) ==
    IF StartsWith(query, ArtistP \o <<32>>) /\ Len(query) >= 3
    THEN { Response(FALSE, << Item(SetListId(query[3] - 96), query, <<120>>) >>) }
    ELSE IF StartsWith(Lower(query), Lower(Foo) \o <<32>>)
    THEN { Response(TRUE, <<>>) } \cup { Response(FALSE, l) : l \in ItemLists(MaxItems) }
    ELSE { Response(TRUE, <<>>),
           Response(FALSE, <<>>),
           Response(FALSE, <<ItemZ>>),
           Response(FALSE, <<ItemZ, ItemQB>>) }

StreamUrl(video_id) == <<"stream", video_id>>

\* the possible results of StreamExtractor.get_stream_url(video_id): a url or None
StreamResponses(video_id) ==
    IF video_id > 10 THEN { StreamUrl(video_id) } ELSE { StreamUrl(video_id), None }

\* the possible outcomes of launching VLC in play_video:
\*   "running"         Popen succeeded and the process is alive after 2 s
\*   "fallback"        the process exited at once, the simplified Popen succeeded
\*   "fallback_error"  the process exited at once, the simplified Popen raised
\*   "error"           the first Popen raised
LaunchOutcomes(video_id) ==
    IF video_id > 10 THEN { "running" }
    ELSE { "running", "fallback", "fallback_error", "error" }

(***************************************************************************)
(* YouTubeSearcher.search_video                                            *)
(***************************************************************************)

\* (mutant of search_queries) the bare terms are tried first
search_queries_BareFirst(clean_artist, clean_song) ==
    << clean_artist \o <<32>> \o clean_song,
       clean_artist \o <<32>> \o clean_song
          \o <<32, 111, 102, 102, 105, 99, 105, 97, 108, 32, 109, 117, 115, 105, 99, 32, 118, 105, 100, 101, 111>>,
       clean_artist \o <<32>> \o clean_song \o <<32, 109, 117, 115, 105, 99, 32, 118, 105, 100, 101, 111>>,
       clean_artist \o <<32>> \o clean_song \o <<32, 111, 102, 102, 105, 99, 105, 97, 108>> >>

search_queries(clean_artist, clean_song) ==
    << clean_artist \o <<32>> \o clean_song
          \o <<32, 111, 102, 102, 105, 99, 105, 97, 108, 32, 109, 117, 115, 105, 99, 32, 118, 105, 100, 101, 111>>,
       clean_artist \o <<32>> \o clean_song \o <<32, 109, 117, 115, 105, 99, 32, 118, 105, 100, 101, 111>>,
       clean_artist \o <<32>> \o clean_song \o <<32, 111, 102, 102, 105, 99, 105, 97, 108>>,
       clean_artist \o <<32>> \o clean_song >>

OfficialTerms ==
    { <<111, 102, 102, 105, 99, 105, 97, 108>>,     \* official
      <<114, 101, 99, 111, 114, 100, 115>>,         \* records
      <<109, 117, 115, 105, 99>> }                  \* music

\* (mutant of ItemMatches) only the title is examined
ItemMatches_TitleOnly(item, clean_artist, clean_song) ==
    /\ Contains(Lower(clean_song), Lower(item.title))
    /\ Contains(Lower(clean_artist), Lower(item.title))

\* the condition under which an item is taken as the match
ItemMatches(item, clean_artist, clean_song) ==
    LET video_title == Lower(item.title)
        video_channel == Lower(item.channel)
        is_official == \E term \in OfficialTerms \cup {Lower(clean_artist)} :
                          Contains(term, video_channel)
        has_song_in_title == Contains(Lower(clean_song), video_title)
        has_artist_in_title == Contains(Lower(clean_artist), video_title)
    IN  (has_song_in_title /\ has_artist_in_title) \/ is_official

\* the video id taken from a non-empty item list: the first match, else the first item
SelectItem(items, clean_artist, clean_song) ==
    IF \E i \in 1..Len(items) : ItemMatches(items[i], clean_artist, clean_song)
    THEN items[CHOOSE i \in 1..Len(items) :
                  /\ ItemMatches(items[i], clean_artist, clean_song)
                  /\ \A j \in 1..(i - 1) : ~ItemMatches(items[j], clean_artist, clean_song)].id
    ELSE items[1].id

CachePut(cache, key, id) ==
    [k \in (DOMAIN cache) \cup {key} |-> IF k = key THEN id ELSE cache[k]]

\* the record in `calls` of the k-th query of the plan and its response
SearchEntry(k, query, r) ==
    [ Entry("Search", k, query,
            IF r.raises THEN "raise" ELSE IF r.items = <<>> THEN "empty" ELSE "items")
      EXCEPT !.items = r.items ]

\* the body of `for query in search_queries`, from query number k on
RECURSIVE SearchLoop(_, _, _, _, _)
SearchLoop(s, clean_artist, clean_song, search_key, k) ==
    IF k > Len(search_queries(clean_artist, clean_song))
    THEN { [s EXCEPT !.ret = NoneId] }
    ELSE LET query == search_queries(clean_artist, clean_song)[k]
         IN  UNION { LET s1 == Log(s, SearchEntry(k, query, r))
                     IN  IF r.raises
                         THEN IF variant = "gui"
                              THEN { [s1 EXCEPT !.exc = TRUE] }
                              ELSE { [s1 EXCEPT !.ret = NoneId] }
                         ELSE IF r.items # <<>>
                         THEN LET video_id == SelectItem(r.items, clean_artist, clean_song)
                              IN  { [s1 EXCEPT !.search_cache = CachePut(@, search_key, video_id),
                                               !.ret = video_id] }
                         ELSE SearchLoop(s1, clean_artist, clean_song, search_key, k + 1)
                   : r \in SearchResponses(query) }

\* (mutant of SearchKey) the key keeps the letter case of the terms
SearchKey_NoLower(clean_artist, clean_song) == clean_artist \o <<32, 45, 32>> \o clean_song

SearchKey(clean_artist, clean_song) == Lower(clean_artist) \o <<32, 45, 32>> \o Lower(clean_song)

\* search_video(artist, song): the result is left in .ret, a raised exception in .exc
search_video(s, artist, song) ==
    IF ~youtube THEN { [s EXCEPT !.ret = NoneId] }
    ELSE LET clean == clean_search_terms(artist, song)
             search_key == SearchKey(clean[1], clean[2])
         IN  IF search_key \in DOMAIN s.search_cache
             THEN { [s EXCEPT !.ret = s.search_cache[search_key]] }
             ELSE SearchLoop(s, clean[1], clean[2], search_key, 1)

\* (mutant of get_stream_url) a failed extraction is remembered in the search cache
get_stream_url_Marks(s, video_id) ==
    { [Log(s, Entry("Resolve", video_id, <<>>, IF u = None THEN "none" ELSE "url"))
          EXCEPT !.url = u,
                 !.search_cache = IF u = None
                                  THEN [k \in DOMAIN @ |-> IF @[k] = video_id THEN NoneId ELSE @[k]]
                                  ELSE @]
      : u \in StreamResponses(video_id) }

\* StreamExtractor.get_stream_url(video_id): the result is left in .url
get_stream_url(s, video_id) ==
    { [Log(s, Entry("Resolve", video_id, <<>>, IF u = None THEN "none" ELSE "url"))
          EXCEPT !.url = u] : u \in StreamResponses(video_id) }

(***************************************************************************)
(* VLCPlayer                                                               *)
(***************************************************************************)

\* (mutant of stop_current_video) stopping the player also drops the pending video
stop_current_video_AndPending(s) ==
    [s EXCEPT !.current_process = IF @ = "running" THEN "none" ELSE @,
              !.pending_video = None]

\* stop_current_video(): terminate (or kill) the process if it is still running
stop_current_video(s) ==
    IF s.current_process = "running"
    THEN [Log(s, Entry("PlayerStop", 0, <<>>, "terminated")) EXCEPT !.current_process = "none"]
    ELSE s

\* (mutant of RememberPlayed) the entry is added and nothing is ever popped
RememberPlayed_NoPop(played, video_id) == { played \cup {video_id} }

\* played_videos.add(video_id); if len(played_videos) > 10: played_videos.pop()
\* (set.pop() removes an arbitrary element)
RememberPlayed(played, video_id) ==
    LET added == played \cup {video_id}
    IN  IF Cardinality(added) > PlayedCap
        THEN { added \ {x} : x \in added }
        ELSE { added }

\* the gui player's test `video_id in self.played_videos` (the nogui player has none)
AlreadyPlayed(s, video_id) == variant = "gui" /\ video_id \in s.played_videos

\* play_video(video_url, video_id, artist, song[, settings]); vlc_path is set
\* (both programs refuse to start the listener without VLC)
play_video(s, video_url, video_id, artist, song) ==
    IF AlreadyPlayed(s, video_id)
    THEN { Log(s, Entry("Log", video_id, <<>>, "already_played")) }
    ELSE LET s1 == stop_current_video(s)
         IN  UNION { LET s2 == Log(s1, Entry("PlayerStart", video_id, <<>>, o))
                     IN  IF o = "error" THEN { s2 }
                         ELSE IF o = "fallback_error"
                         THEN { [s2 EXCEPT !.current_process = "exited"] }
                         ELSE { [s2 EXCEPT !.current_process = "running", !.played_videos = p]
                                : p \in RememberPlayed(s2.played_videos, video_id) }
                   : o \in LaunchOutcomes(video_id) }

(***************************************************************************)
(* RB3EventListener                                                        *)
(***************************************************************************)

RB3E_EVENTS_MAGIC == 1380070213      \* 0x52423345
RB3E_EVENTS_PROTOCOL == 0
RB3E_EVENT_ALIVE == 0
RB3E_EVENT_STATE == 1
RB3E_EVENT_SONG_NAME == 2
RB3E_EVENT_SONG_ARTIST == 3

\* the test that selects prepare_video over play_current_song in process_packet
SyncEnabled ==
    IF variant = "gui" THEN settings.sync_video_to_song
    ELSE settings.sync_video_to_song /\ settings.preload_videos

\* (mutant of Sleeps) any delay other than zero is slept
Sleeps_Nonzero(delay) == delay # 0

\* start_pending_video: `if delay > 0` inside `if delay != 0`, the test that guards time.sleep(delay)
Sleeps(delay) == delay > 0

\* the timing block of start_pending_video: a positive delay is announced and slept;
\* a negative delay only makes the nogui program print "Starting video ...s early"
Delayed(s) ==
    IF Sleeps(settings.video_start_delay)
    THEN Log(s, Entry("Sleep", 0, <<>>, "delay"))
    ELSE IF variant = "nogui" /\ settings.video_start_delay # 0
    THEN Log(s, Entry("Log", 0, <<>>, "starting_early"))
    ELSE s

\* (mutant of start_pending_video) the record stays pending unless the player was launched
start_pending_video_KeepOnFailure(s, origin) ==
    IF s.pending_video = None THEN { s }
    ELSE LET s1 == Log(s, Entry("start_pending_video", s.pending_video[2], <<>>, origin))
             s2 == Delayed(s1)
         IN  { IF t.calls[Len(t.calls)].op = "PlayerStart"
                  /\ t.calls[Len(t.calls)].res \in {"running", "fallback"}
               THEN [t EXCEPT !.pending_video = None]
               ELSE t
               : t \in play_video(s2, s.pending_video[1], s.pending_video[2],
                                  s.pending_video[3], s.pending_video[4]) }

\* start_pending_video(); `origin` names the caller, for the record in `calls` only
start_pending_video(s, origin) ==
    IF s.pending_video = None THEN { s }
    ELSE LET stream_url == s.pending_video[1]
             video_id == s.pending_video[2]
             artist == s.pending_video[3]
             song == s.pending_video[4]
             s1 == Log(s, Entry("start_pending_video", video_id, <<>>, origin))
             s2 == Delayed(s1)
         IN  { [t EXCEPT !.pending_video = None]
               : t \in play_video(s2, stream_url, video_id, artist, song) }

\* (mutant of Caught) the exception is not handled and leaves the method
Caught_Reraised(t) == t

\* `except Exception as e:` followed by a log line, as in prepare_video,
\* play_current_song and process_packet: the exception is handled here
Caught(t) == [t EXCEPT !.exc = FALSE]

\* (mutant of ClearSong) the reset for the next song also resets the game state
ClearSong_AndState(s) ==
    [s EXCEPT !.current_song = <<>>, !.current_artist = <<>>, !.game_state = 0]

\* the two assignments that reset the accumulator
ClearSong(s) == [s EXCEPT !.current_song = <<>>, !.current_artist = <<>>]

\* (mutant of StartNow) the prepared video always waits for the next State event
StartNow_Never(v) == FALSE

\* (mutant of StartNow) the prepared video is started whatever the game state
StartNow_Always(v) == TRUE

\* prepare_video: `if self.game_state == 1` (the song is already playing)
StartNow(v) == v.game_state = 1

\* (mutant of PendingRecord) a record that is already pending is kept
PendingRecord_KeepOld(u, video_id) ==
    IF u.pending_video # None THEN u.pending_video
    ELSE <<u.url, video_id, u.current_artist, u.current_song>>

\* prepare_video: the tuple (stream_url, video_id, self.current_artist, self.current_song)
PendingRecord(u, video_id) == <<u.url, video_id, u.current_artist, u.current_song>>

\* prepare_video()
prepare_video(s) ==
    UNION { IF t.exc
            THEN { Caught(t) }
            ELSE IF t.ret # NoneId
            THEN UNION { IF u.url # None
                         THEN LET v == [u EXCEPT !.pending_video = PendingRecord(u, t.ret)]
                              IN  IF StartNow(v)
                                  THEN { ClearSong(w) : w \in start_pending_video(v, "prepare_video") }
                                  ELSE { ClearSong(v) }
                         ELSE { ClearSong(u) }
                       : u \in get_stream_url(t, t.ret) }
            ELSE { ClearSong(t) }
          : t \in search_video(Log(s, Entry("prepare_video", 0, <<>>, "")),
                               s.current_artist, s.current_song) }

\* play_current_song()
play_current_song(s) ==
    UNION { IF t.exc
            THEN { Caught(t) }
            ELSE IF t.ret # NoneId
            THEN UNION { IF u.url # None
                         THEN { ClearSong(w)
                                : w \in play_video(u, u.url, t.ret, u.current_artist, u.current_song) }
                         ELSE { ClearSong(u) }
                       : u \in get_stream_url(t, t.ret) }
            ELSE { ClearSong(t) }
          : t \in search_video(Log(s, Entry("play_current_song", 0, <<>>, "")),
                               s.current_artist, s.current_song) }

\* code points for which str.isdigit() holds: the decimal digits int() accepts
\* (ASCII and Arabic-Indic here) and digits it rejects (superscript 1, 2, 3)
DecimalDigits == (48..57) \cup (1632..1641)
OtherDigits == {178, 179, 185}

DigitValue(c) == IF c <= 57 THEN c - 48 ELSE c - 1632

\* int(text) for a text of decimal digits
RECURSIVE IntOf(_)
IntOf(text) ==
    IF text = <<>> THEN 0
    ELSE 10 * IntOf(SubSeq(text, 1, Len(text) - 1)) + DigitValue(text[Len(text)])

\* str.isdigit()
IsDigitText(text) ==
    text # <<>> /\ \A i \in 1..Len(text) : text[i] \in DecimalDigits \cup OtherDigits

\* int(packet_data) raises ValueError
StateValueRaises(packet_data) ==
    IsDigitText(packet_data) /\ \E i \in 1..Len(packet_data) : packet_data[i] \in OtherDigits

\* new_state = int(packet_data) if packet_data.isdigit() else ord(packet_data[0]) if packet_data else 0
StateValue(packet_data) ==
    IF IsDigitText(packet_data) THEN IntOf(packet_data)
    ELSE IF packet_data # <<>> THEN packet_data[1]
    ELSE 0

\* (mutant of IsSongStart) any state other than in-game counts as menus
IsSongStart_FromAny(old_state, new_state) == old_state # 1 /\ new_state = 1

\* handle_state_change: the transition from menus (0) to in-game (1)
IsSongStart(old_state, new_state) == old_state = 0 /\ new_state = 1

\* (mutant of IsReturnToMenu) any State event with the value 0 counts as a return
IsReturnToMenu_FromAny(old_state, new_state) == new_state = 0

\* handle_state_change: the transition from in-game (1) to menus (0)
IsReturnToMenu(old_state, new_state) == old_state = 1 /\ new_state = 0

\* (mutant of StartOnTransition) the sync setting is not consulted
StartOnTransition_NoSync(s) == s.pending_video # None

\* handle_state_change: `if self.pending_video and <sync video to song>`
StartOnTransition(s) == s.pending_video # None /\ settings.sync_video_to_song

\* handle_state_change(packet_data); an exception leaves the handler at once and is swallowed
handle_state_change(s, packet_data) ==
    IF StateValueRaises(packet_data) THEN { s }
    ELSE LET new_state == StateValue(packet_data)
             after ==
                 IF IsSongStart(s.game_state, new_state)
                 THEN LET s1 == Log(s, Entry("Log", 0, <<>>, "song_starting"))
                      IN  IF StartOnTransition(s1)
                          THEN start_pending_video(s1, "handle_state_change")
                          ELSE { s1 }
                 ELSE IF IsReturnToMenu(s.game_state, new_state)
                 THEN LET s1 == Log(s, Entry("Log", 0, <<>>, "returned_to_menus"))
                          s2 == IF settings.auto_quit_on_menu
                                THEN stop_current_video(Log(s1, Entry("stop_current_video", 0, <<>>, "")))
                                ELSE s1
                      IN  { [s2 EXCEPT !.pending_video = None] }
                 ELSE { s }
         IN  { [t EXCEPT !.game_state = new_state] : t \in after }

\* struct.unpack('>I', data[:4])[0]
Magic(data) == ((data[1] * 256 + data[2]) * 256 + data[3]) * 256 + data[4]

\* data[8:8+packet_size].rstrip(b'\x00').decode('utf-8', errors='ignore'), "" when packet_size = 0
PacketData(data) ==
    LET packet_size == data[7]
        stop == IF 8 + packet_size > Len(data) THEN Len(data) ELSE 8 + packet_size
    IN  IF packet_size > 0
        THEN DecodeUtf8Ignore(RStripNul(IF stop < 9 THEN <<>> ELSE SubSeq(data, 9, stop)))
        ELSE <<>>

\* the dispatch on packet_type in process_packet
Dispatch(s, packet_type, packet_data) ==
    IF packet_type = RB3E_EVENT_ALIVE
    THEN { Log(s, Entry("Log", 0, packet_data, "connected")) }
    ELSE IF packet_type = RB3E_EVENT_STATE
    THEN handle_state_change(s, packet_data)
    ELSE IF packet_type = RB3E_EVENT_SONG_NAME
    THEN { [s EXCEPT !.current_song = packet_data] }
    ELSE IF packet_type = RB3E_EVENT_SONG_ARTIST
    THEN { [s EXCEPT !.current_artist = packet_data] }
    ELSE { s }

\* (mutant of Trigger) the completed pair is always searched and played at once
Trigger_PlaysDirectly(s) ==
    IF s.current_song # <<>> /\ s.current_artist # <<>>
    THEN play_current_song(s)
    ELSE { s }

\* (mutant of Trigger) the sync settings are not consulted
Trigger_AlwaysPrepares(s) ==
    IF s.current_song # <<>> /\ s.current_artist # <<>>
    THEN prepare_video(s)
    ELSE { s }

\* the trailing test of process_packet: both accumulator slots are non-empty
Trigger(s) ==
    IF s.current_song # <<>> /\ s.current_artist # <<>>
    THEN IF SyncEnabled THEN prepare_video(s) ELSE play_current_song(s)
    ELSE { s }

\* (mutant of Dropped) only the length of the datagram is tested
Dropped_ShortOnly(data) == Len(data) < 8

\* the tests of process_packet that end it before the packet is looked at:
\* fewer than 8 bytes, or the wrong magic number, or the wrong protocol version
Dropped(data) ==
    \/ Len(data) < 8
    \/ Magic(data) # RB3E_EVENTS_MAGIC
    \/ data[5] # RB3E_EVENTS_PROTOCOL

\* process_packet(data); an exception raised after the header is parsed is handled
process_packet(s, data) ==
    IF Dropped(data) THEN { s }
    ELSE { IF t.exc THEN Caught(t) ELSE t
           : t \in UNION { Trigger(s1) : s1 \in Dispatch(s, data[6], PacketData(data)) } }

(***************************************************************************)
(* The state machine                                                       *)
(***************************************************************************)

\* the listener and its collaborators as one record, with an empty call record
Current ==
    [ game_state |-> game_state, current_song |-> current_song,
      current_artist |-> current_artist, pending_video |-> pending_video,
      search_cache |-> search_cache, played_videos |-> played_videos,
      current_process |-> current_process,
      calls |-> <<>>, ret |-> NoneId, url |-> None, exc |-> FALSE ]

\* the thread while the receive loop is in its steady state: the socket is bound,
\* the loop is running and waits in recvfrom
Listening ==
    [ pc |-> "recv", running |-> TRUE, sock |-> "bound", is_running |-> TRUE,
      stop_called |-> FALSE, queue |-> <<>>, data |-> <<>> ]

Header(packet_type, packet_size) == <<82, 66, 51, 69, 0, packet_type, packet_size, 0>>

\* the datagrams the socket can deliver
Datagrams ==
    { Header(0, 0),                                  \* Alive
      Header(1, 1) \o <<48>>,                        \* State "0"
      Header(1, 1) \o <<49>>,                        \* State "1"
      Header(1, 1) \o <<65>>,                        \* State "A"
      Header(1, 2) \o <<194, 178>>,                  \* State "²"
      Header(2, 4) \o SongB \o <<0, 0, 0>>,          \* SongName "B", NUL padded
      Header(3, 1) \o ArtistQ,                       \* SongArtist "Q"
      Header(5, 1) \o <<88>>,                        \* an event type the program does not know
      <<82, 66, 51, 69, 0, 1, 1>>,                   \* 7 bytes
      <<82, 66, 51, 70, 0, 1, 1, 0, 49>>,            \* wrong magic
      <<82, 66, 51, 69, 1, 1, 1, 0, 49>> }           \* wrong version

Delays == {-5, 0, 2}

SettingsSet ==
    [ sync_video_to_song : BOOLEAN, preload_videos : BOOLEAN,
      auto_quit_on_menu : BOOLEAN, video_start_delay : Delays ]

Init ==
    /\ variant \in {"gui", "nogui"}
    /\ youtube \in (IF variant = "gui" THEN {TRUE} ELSE BOOLEAN)
    /\ settings \in { st \in SettingsSet : variant = "gui" => st.preload_videos }
    /\ game_state = 0
    /\ current_song = <<>>
    /\ current_artist = <<>>
    /\ pending_video = None
    /\ search_cache = <<>>
    /\ played_videos = {}
    /\ current_process = "none"
    /\ last = [kind |-> "none", data |-> <<>>, error |-> FALSE]
    /\ calls = <<>>
    /\ thread = Listening

\* the listener and its collaborators after a handler has ended in t
Becomes(t) ==
    /\ game_state' = t.game_state
    /\ current_song' = t.current_song
    /\ current_artist' = t.current_artist
    /\ pending_video' = t.pending_video
    /\ search_cache' = t.search_cache
    /\ played_videos' = t.played_videos
    /\ current_process' = t.current_process
    /\ calls' = t.calls

\* one iteration of the receive loop: recvfrom, then process_packet(data)
Receive(data) ==
    \E t \in process_packet(Current, data) :
        /\ Becomes(t)
        /\ last' = [kind |-> "datagram", data |-> data, error |-> t.exc]
        /\ UNCHANGED << variant, youtube, settings, thread >>

ReceiveDatagram == \E data \in Datagrams : Receive(data)

\* gui: save_settings() hands the listener a new settings dict (update_settings)
SaveSettings ==
    /\ variant = "gui"
    /\ \E st \in SettingsSet : st.preload_videos /\ st # settings /\ settings' = st
    /\ last' = [kind |-> "settings", data |-> <<>>, error |-> FALSE]
    /\ calls' = <<>>
    /\ UNCHANGED << variant, youtube, game_state, current_song, current_artist,
                    pending_video, search_cache, played_videos, current_process, thread >>

\* the VLC process ends by itself (the video is over, or the user closes the window)
ProcessExits ==
    /\ current_process = "running"
    /\ current_process' = "exited"
    /\ last' = [kind |-> "exit", data |-> <<>>, error |-> FALSE]
    /\ calls' = <<>>
    /\ UNCHANGED << variant, youtube, settings, game_state, current_song, current_artist,
                    pending_video, search_cache, played_videos, thread >>

Next == ReceiveDatagram \/ SaveSettings \/ ProcessExits

Spec == Init /\ [][Next]_vars

(***************************************************************************)
(* A second specification: the game goes in-game and then plays through    *)
(* the set list of artist "P", sending the artist and then the name of     *)
(* each song; a song may be replayed once every earlier song of the list   *)
(* has been searched.  The services are reliable, so every completed pair  *)
(* is played and more distinct videos than PlayedCap get played.           *)
(***************************************************************************)

InitPlayed ==
    /\ variant \in {"gui", "nogui"}
    /\ youtube = TRUE
    /\ settings \in { st \in SettingsSet :
                        st.preload_videos /\ st.auto_quit_on_menu /\ st.video_start_delay = 0 }
    /\ game_state = 0
    /\ current_song = <<>>
    /\ current_artist = <<>>
    /\ pending_video = None
    /\ search_cache = <<>>
    /\ played_videos = {}
    /\ current_process = "none"
    /\ last = [kind |-> "none", data |-> <<>>, error |-> FALSE]
    /\ calls = <<>>
    /\ thread = Listening

ReceiveSetListSong ==
    /\ game_state = 1
    /\ current_artist # <<>>
    /\ \E i \in 1..SetListLen :
          /\ \A j \in 1..(i - 1) : SearchKey(ArtistP, SetListSong(j)) \in DOMAIN search_cache
          /\ Receive(Header(2, 1) \o SetListSong(i))

ReceiveSetListArtist ==
    /\ game_state = 1
    /\ current_artist = <<>>
    /\ Receive(Header(3, 1) \o ArtistP)

ReceiveInGame == Receive(Header(1, 1) \o <<49>>)

NextPlayed == ReceiveSetListSong \/ ReceiveSetListArtist \/ ReceiveInGame

SpecPlayed == InitPlayed /\ [][NextPlayed]_vars

(***************************************************************************)
(* A third specification: the life of the listener thread.  The starter    *)
(* (start_listener of the gui, main of the nogui program) creates the      *)
(* thread; the thread creates and binds the socket, sets `running` and     *)
(* loops over recvfrom / process_packet; the starter calls stop() (the     *)
(* Stop button, or Ctrl+C).  The statements of the thread are separate     *)
(* steps, so that the starter's steps and the arrival of datagrams can     *)
(* fall between any two of them.  One listener is started and stopped once.*)
(*                                                                         *)
(* thread.pc:  "idle" -> "create" -> "bind" -> "set_running" -> "loop"     *)
(*             -> "recv" -> "process" -> "loop" ... -> "done"; "failed" is *)
(*             the `except Exception` clause that ends start_listening.    *)
(* thread.sock: "none", "open", "bound" or "closed"                        *)
(* thread.queue: the datagrams waiting in the socket's receive buffer      *)
(* thread.is_running: the gui's is_running flag; for the nogui program,    *)
(*             main() having gone on to its "Ready to rock" wait loop      *)
(***************************************************************************)

\* the datagrams that can wait in the receive buffer at one time
MaxBacklog == 1

LoopDatagrams ==
    { Header(1, 1) \o <<49>>,                       \* State "1"
      Header(1, 1) \o <<48>>,                       \* State "0"
      Header(2, 1) \o SongB,                        \* SongName "B"
      Header(3, 1) \o ArtistQ,                      \* SongArtist "Q"
      <<82, 66, 51, 69, 0, 1, 1>> }                 \* 7 bytes

InitLoop ==
    /\ variant \in {"gui", "nogui"}
    /\ youtube = TRUE
    /\ settings \in { st \in SettingsSet :
                        st.preload_videos /\ st.auto_quit_on_menu /\ st.video_start_delay = 0 }
    /\ game_state = 0
    /\ current_song = <<>>
    /\ current_artist = <<>>
    /\ pending_video = None
    /\ search_cache = <<>>
    /\ played_videos = {}
    /\ current_process = "none"
    /\ last = [kind |-> "none", data |-> <<>>, error |-> FALSE]
    /\ calls = <<>>
    /\ thread = [ pc |-> "idle", running |-> FALSE, sock |-> "none", is_running |-> FALSE,
                  stop_called |-> FALSE, queue |-> <<>>, data |-> <<>> ]

\* a step that is not the processing of a datagram: the listener's and the
\* collaborators' state is left alone
Aside(kind) ==
    /\ last' = [kind |-> kind, data |-> <<>>, error |-> FALSE]
    /\ calls' = <<>>
    /\ UNCHANGED << variant, youtube, settings, game_state, current_song, current_artist,
                    pending_video, search_cache, played_videos, current_process >>

\* gui start_listener / nogui main: the thread is created and started, and the
\* starter goes on (is_running = True) without waiting for the thread
StartListener ==
    /\ thread.pc = "idle"
    /\ thread' = [thread EXCEPT !.pc = "create", !.is_running = TRUE]
    /\ Aside("start_listener")

\* start_listening: self.sock = socket.socket(...)
ThreadCreate ==
    /\ thread.pc = "create"
    /\ thread' = [thread EXCEPT !.pc = "bind", !.sock = "open"]
    /\ Aside("thread")

\* start_listening: setsockopt, settimeout, bind.  On a socket that stop() has
\* closed they raise; bind can also fail by itself (the port is taken).  Either
\* way the outer `except Exception` logs the error and start_listening returns.
ThreadBind ==
    /\ thread.pc = "bind"
    /\ \/ /\ thread.sock = "open"
          /\ thread' = [thread EXCEPT !.pc = "set_running", !.sock = "bound"]
       \/ thread' = [thread EXCEPT !.pc = "failed"]
    /\ Aside("thread")

\* start_listening: self.running = True
ThreadSetRunning ==
    /\ thread.pc = "set_running"
    /\ thread' = [thread EXCEPT !.pc = "loop", !.running = TRUE]
    /\ Aside("thread")

\* start_listening: `while self.running:`
ThreadLoopTest ==
    /\ thread.pc = "loop"
    /\ thread' = [thread EXCEPT !.pc = IF thread.running THEN "recv" ELSE "done"]
    /\ Aside("thread")

\* start_listening: recvfrom.  On a closed socket it raises socket.error, which is
\* logged and followed by the next loop test; with a datagram waiting it returns
\* it; otherwise it times out after 5 s and the loop continues.
ThreadRecv ==
    /\ thread.pc = "recv"
    /\ IF thread.sock = "bound" /\ thread.queue # <<>>
       THEN thread' = [thread EXCEPT !.pc = "process", !.data = Head(thread.queue),
                                     !.queue = Tail(thread.queue)]
       ELSE thread' = [thread EXCEPT !.pc = "loop"]
    /\ Aside("thread")

\* where start_listening goes when process_packet has ended: to the next loop
\* test, or, had it ended with an exception (which the inner try does not
\* handle), to the outer `except Exception` and out of the function
LoopAfter(exc) == IF exc THEN "failed" ELSE "loop"

\* start_listening: self.process_packet(data)
ThreadProcess ==
    /\ thread.pc = "process"
    /\ \E t \in process_packet(Current, thread.data) :
          /\ Becomes(t)
          /\ last' = [kind |-> "datagram", data |-> thread.data, error |-> t.exc]
          /\ thread' = [thread EXCEPT !.pc = LoopAfter(t.exc), !.data = <<>>]
    /\ UNCHANGED << variant, youtube, settings >>

\* the network delivers a datagram to the bound socket; it waits in the receive
\* buffer, or is lost when the buffer is full
Arrive ==
    /\ thread.sock = "bound"
    /\ Len(thread.queue) < MaxBacklog
    /\ \E data \in LoopDatagrams : thread' = [thread EXCEPT !.queue = Append(@, data)]
    /\ Aside("arrive")

\* RB3EventListener.stop(): self.running = False; if self.sock: self.sock.close()
stop(th) ==
    [th EXCEPT !.running = FALSE,
               !.sock = IF th.sock = "none" THEN "none" ELSE "closed",
               !.queue = <<>>]

\* gui stop_listener (the Stop button is enabled while is_running) / nogui main on
\* Ctrl+C: listener.stop() and vlc_player.stop_current_video()
StopListener ==
    /\ thread.is_running
    /\ thread' = [stop(thread) EXCEPT !.is_running = FALSE, !.stop_called = TRUE]
    /\ Becomes(stop_current_video(Current))
    /\ last' = [kind |-> "stop_listener", data |-> <<>>, error |-> FALSE]
    /\ UNCHANGED << variant, youtube, settings >>

\* gui stop_vlc (the Stop VLC button): vlc_player.stop_current_video(); without a
\* player process the call does nothing, and the step is left out
StopVlc ==
    /\ variant = "gui"
    /\ thread.pc # "idle"
    /\ current_process # "none"
    /\ Becomes(stop_current_video(Current))
    /\ last' = [kind |-> "stop_vlc", data |-> <<>>, error |-> FALSE]
    /\ UNCHANGED << variant, youtube, settings, thread >>

\* nogui main returns after listener.stop(): the process ends, and the daemon
\* thread with it
MainReturns ==
    /\ variant = "nogui"
    /\ thread.stop_called
    /\ thread.pc \notin {"done", "failed"}
    /\ thread' = [thread EXCEPT !.pc = "done"]
    /\ Aside("exit_process")

ThreadStep ==
    \/ ThreadCreate \/ ThreadBind \/ ThreadSetRunning
    \/ ThreadLoopTest \/ ThreadRecv \/ ThreadProcess

NextLoop ==
    \/ StartListener \/ ThreadStep \/ Arrive \/ StopListener \/ StopVlc
    \/ MainReturns \/ ProcessExits

\* the statements of start_listening other than the call of process_packet
ThreadStatement ==
    ThreadCreate \/ ThreadBind \/ ThreadSetRunning \/ ThreadLoopTest \/ ThreadRecv

\* the call of process_packet returns: every collaborator call it makes returns or
\* raises, so ThreadProcess has a step whenever the thread holds a datagram, and
\* a step of ThreadProcess is a step that leaves "process"
ProcessReturns ==
    /\ thread.pc = "process"
    /\ thread' \in { [thread EXCEPT !.pc = p, !.data = <<>>] : p \in {"loop", "failed"} }

\* the thread is scheduled as long as it has a step to take, and the nogui
\* process does end once main has returned
SpecLoop ==
    /\ InitLoop /\ [][NextLoop]_vars
    /\ WF_vars(ThreadStatement) /\ WF_thread(ProcessReturns) /\ WF_vars(MainReturns)

(***************************************************************************)
(* Vocabulary of the properties                                            *)
(***************************************************************************)

\* the datagram passes the length, magic and version tests
IsValidPacket(data) ==
    Len(data) >= 8 /\ Magic(data) = RB3E_EVENTS_MAGIC /\ data[5] = RB3E_EVENTS_PROTOCOL

\* the datagram is a valid packet of the given event type
IsEvent(data, packet_type) == IsValidPacket(data) /\ data[6] = packet_type

IsSongEvent(data) ==
    IsEvent(data, RB3E_EVENT_SONG_NAME) \/ IsEvent(data, RB3E_EVENT_SONG_ARTIST)

\* the positions of the entries of a call record with the given op
CallsAt(cs, op) == { i \in 1..Len(cs) : cs[i].op = op }

HasCall(cs, op) == CallsAt(cs, op) # {}

\* the positions at which the player was asked to launch the given video
StartsOf(cs, video_id) == { i \in CallsAt(cs, "PlayerStart") : cs[i].id = video_id }

\* the number of times the given message was logged
Logged(cs, msg) == Cardinality({ i \in CallsAt(cs, "Log") : cs[i].res = msg })

\* the match/resolve pipeline (prepare_video or play_current_song) was invoked
PipelineRan(cs) == HasCall(cs, "prepare_video") \/ HasCall(cs, "play_current_song")

\* the pipeline matched a video and resolved a stream url for it
ResolvedUrl(cs) == \E i \in CallsAt(cs, "Resolve") : cs[i].res = "url"

\* the calls made before the trailing pipeline of process_packet, that is by the dispatch
DispatchCalls(cs) ==
    LET marks == CallsAt(cs, "prepare_video") \cup CallsAt(cs, "play_current_song")
    IN  IF marks = {} THEN cs
        ELSE SubSeq(cs, 1, (CHOOSE i \in marks : \A j \in marks : i <= j) - 1)

\* this step processed a datagram / a valid State packet
ReceivedStep == last'.kind = "datagram"
StateStep == ReceivedStep /\ IsEvent(last'.data, RB3E_EVENT_STATE)

\* this step processed a State packet that moved the game from menus to in-game
MenuToInGameStep == StateStep /\ game_state = 0 /\ game_state' = 1

\* this step processed a State packet that moved the game from in-game to menus
InGameToMenuStep == StateStep /\ game_state = 1 /\ game_state' = 0

\* the previous datagram was a song event whose prepare_video left a pending video
\* while the game was in the menus, and the sync settings are on
PreparedInMenu ==
    /\ last.kind = "datagram" /\ IsSongEvent(last.data)
    /\ HasCall(calls, "prepare_video") /\ ResolvedUrl(calls)
    /\ pending_video # None /\ game_state = 0 /\ SyncEnabled

\* a song event completes the pair in the menus with sync on and the pipeline succeeds
PrepareInMenuStep ==
    /\ ReceivedStep /\ IsSongEvent(last'.data)
    /\ SyncEnabled /\ game_state = 0
    /\ HasCall(calls', "prepare_video") /\ ResolvedUrl(calls')

(***************************************************************************)
(* A fourth specification: the game sends the pair (artist "Q", song "B")  *)
(* twice in a row, each time as two song events in either order, possibly  *)
(* after one State event that takes it in-game.  `last` also records the   *)
(* song events fed so far and, for every invocation of the pipeline, the   *)
(* video id its search returned and the Search calls it issued.            *)
(***************************************************************************)

\* how often the same pair is fed
Feeds == 2

\* the positions in a call record at which a pipeline was invoked
PipelineStarts(cs) == CallsAt(cs, "prepare_video") \cup CallsAt(cs, "play_current_song")

\* the video id the search of this call record returned (NoneId if none): the
\* pipeline hands a video id it got to get_stream_url
FoundId(cs) ==
    IF HasCall(cs, "Resolve") THEN cs[CHOOSE i \in CallsAt(cs, "Resolve") : TRUE].id ELSE NoneId

InitTwice ==
    /\ variant \in {"gui", "nogui"}
    /\ youtube = TRUE
    /\ settings \in { st \in SettingsSet :
                        st.preload_videos /\ st.auto_quit_on_menu /\ st.video_start_delay = 0 }
    /\ game_state = 0
    /\ current_song = <<>>
    /\ current_artist = <<>>
    /\ pending_video = None
    /\ search_cache = <<>>
    /\ played_videos = {}
    /\ current_process = "none"
    /\ last = [kind |-> "none", data |-> <<>>, error |-> FALSE,
               fed |-> <<>>, found |-> <<>>, searches |-> <<>>]
    /\ calls = <<>>
    /\ thread = Listening

\* one iteration of the receive loop, recorded in the longer `last`
Feed(data) ==
    \E t \in process_packet(Current, data) :
        /\ Becomes(t)
        /\ last' = [ kind |-> "datagram", data |-> data, error |-> t.exc,
                     fed |-> IF data[6] \in {RB3E_EVENT_SONG_NAME, RB3E_EVENT_SONG_ARTIST}
                             THEN Append(last.fed, data[6]) ELSE last.fed,
                     found |-> IF PipelineStarts(t.calls) # {}
                               THEN Append(last.found, FoundId(t.calls)) ELSE last.found,
                     searches |-> IF PipelineStarts(t.calls) # {}
                                  THEN Append(last.searches, Cardinality(CallsAt(t.calls, "Search")))
                                  ELSE last.searches ]
        /\ UNCHANGED << variant, youtube, settings, thread >>

\* the song event of the given type is the next one of a feed: the first event of a
\* feed is either of the two, the second is the other one
NextOfFeed(packet_type) ==
    /\ Len(last.fed) < 2 * Feeds
    /\ Len(last.fed) % 2 = 1 => last.fed[Len(last.fed)] # packet_type

FeedArtist ==
    /\ NextOfFeed(RB3E_EVENT_SONG_ARTIST)
    /\ Feed(Header(RB3E_EVENT_SONG_ARTIST, 1) \o ArtistQ)

FeedName ==
    /\ NextOfFeed(RB3E_EVENT_SONG_NAME)
    /\ Feed(Header(RB3E_EVENT_SONG_NAME, 1) \o SongB)

\* the game goes in-game before the first feed
FeedInGame ==
    /\ last.fed = <<>> /\ game_state = 0
    /\ Feed(Header(RB3E_EVENT_STATE, 1) \o <<49>>)

NextTwice == FeedArtist \/ FeedName \/ FeedInGame

SpecTwice == InitTwice /\ [][NextTwice]_vars

(***************************************************************************)
(* A fifth specification: the payload decoding of process_packet as a      *)
(* function of the datagram.  The decoding reads nothing but the datagram, *)
(* so it is applied to the first datagram a new listener receives, and     *)
(* that is a SongName packet, so that the pipeline does not run and        *)
(* current_song shows what was decoded.  The datagrams are a header with   *)
(* every declared length up to MaxDeclared, followed by every byte string  *)
(* up to MaxPayloadLen over PayloadBytes, and the 'Hello' packets.         *)
(***************************************************************************)

\* the longest declared length and the most bytes after the header
MaxDeclared == 4
MaxPayloadLen == 3

\* NUL, 'B', the two bytes of U+00B2, and a byte that is not UTF-8
PayloadBytes == {0, 66, 194, 178, 255}

RECURSIVE BytesUpTo(_)
BytesUpTo(n) ==
    IF n = 0 THEN { <<>> }
    ELSE BytesUpTo(n - 1) \cup { Append(b, x) : b \in BytesUpTo(n - 1), x \in PayloadBytes }

Hello == <<72, 101, 108, 108, 111>>

DecodeDatagrams ==
    { Header(RB3E_EVENT_SONG_NAME, n) \o b : n \in 0..MaxDeclared, b \in BytesUpTo(MaxPayloadLen) }
    \cup { Header(RB3E_EVENT_SONG_NAME, 5) \o Hello \o <<0, 0, 0>>,
           Header(RB3E_EVENT_SONG_NAME, 8) \o Hello \o <<0, 0, 0>>,
           Header(RB3E_EVENT_SONG_NAME, 3) \o Hello }

ReceiveSongName ==
    /\ last.kind = "none"
    /\ \E data \in DecodeDatagrams : Receive(data)

SpecDecode == InitPlayed /\ [][ReceiveSongName]_vars

(***************************************************************************)
(* The matcher alone: the artist "Foo" and the song "Song" are announced   *)
(* in several spellings, the artist first, in the menus; Search answers    *)
(* with any candidate list over FooPool.                                   *)
(***************************************************************************)
FooFeatBar == <<70, 111, 111, 32, 102, 101, 97, 116, 46, 32, 66, 97, 114>>    \* "Foo feat. Bar"
SongRemastered == <<83, 111, 110, 103, 32, 40, 82, 101, 109, 97, 115, 116, 101, 114, 101, 100, 41>>    \* "Song (Remastered)"

FooFtX == <<70, 79, 79, 32, 102, 116, 46, 32, 88>>    \* "FOO ft. X"

FooArtists == { FooFeatBar, FooFtX }
FooSongs == { SongRemastered }

ReceiveFooArtist ==
    /\ current_artist = <<>>
    /\ \E artist \in FooArtists : Receive(Header(3, Len(artist)) \o artist)

ReceiveFooSong ==
    /\ current_artist # <<>>
    /\ \E song \in FooSongs : Receive(Header(2, Len(song)) \o song)

NextMatch == ReceiveFooArtist \/ ReceiveFooSong

\* the synchronised mode: in the menus a completed pair runs prepare_video only
InitMatch == InitPlayed /\ settings.sync_video_to_song

SpecMatch == InitMatch /\ [][NextMatch]_vars

(***************************************************************************)
(* Several songs of one set list are announced while the game leaves the   *)
(* menus (State "A", then State "1"); the services are reliable, so every  *)
(* prepare_video succeeds.                                                 *)
(***************************************************************************)
PendingSongs == 2

ReceivePendingArtist ==
    /\ current_artist = <<>>
    /\ Receive(Header(3, 1) \o ArtistP)

ReceivePendingSong ==
    /\ current_artist # <<>>
    /\ \E i \in 1..PendingSongs : Receive(Header(2, 1) \o SetListSong(i))

ReceiveLeavingMenus == \E value \in {<<49>>, <<65>>} : Receive(Header(1, 1) \o value)

NextPending == ReceivePendingArtist \/ ReceivePendingSong \/ ReceiveLeavingMenus

SpecPending == InitPlayed /\ [][NextPending]_vars

(***************************************************************************)
(* Two runs in lockstep, one with a negative start delay and one with a    *)
(* delay of zero: every datagram is first handed to process_packet under   *)
(* the negative delay, where its possible outcomes are only noted, and     *)
(* then processed under the delay of zero.                                 *)
(***************************************************************************)
InitDelay ==
    /\ variant \in {"gui", "nogui"}
    /\ youtube = TRUE
    /\ settings \in { st \in SettingsSet : st.preload_videos /\ st.video_start_delay < 0 }
    /\ game_state = 0
    /\ current_song = <<>>
    /\ current_artist = <<>>
    /\ pending_video = None
    /\ search_cache = <<>>
    /\ played_videos = {}
    /\ current_process = "none"
    /\ last = [kind |-> "none", data |-> <<>>, error |-> FALSE,
               delay |-> 0, outcomes |-> {}]
    /\ calls = <<>>
    /\ thread = Listening

\* the run with the negative delay: the outcomes of process_packet(data) are noted
ProbeNegativeDelay ==
    /\ last.kind # "probe"
    /\ \E data \in Datagrams :
          last' = [kind |-> "probe", data |-> data, error |-> FALSE,
                   delay |-> settings.video_start_delay,
                   outcomes |-> process_packet(Current, data)]
    /\ settings' = [settings EXCEPT !.video_start_delay = 0]
    /\ UNCHANGED << variant, youtube, game_state, current_song, current_artist,
                    pending_video, search_cache, played_videos, current_process,
                    calls, thread >>

\* the run with the delay of zero: the same datagram is processed
ReceiveZeroDelay ==
    /\ last.kind = "probe"
    /\ \E t \in process_packet(Current, last.data) :
          /\ Becomes(t)
          /\ last' = [last EXCEPT !.kind = "datagram", !.error = t.exc]
    /\ settings' = [settings EXCEPT !.video_start_delay = last.delay]
    /\ UNCHANGED << variant, youtube, thread >>

NextDelay == ProbeNegativeDelay \/ ReceiveZeroDelay

SpecDelay == InitDelay /\ [][NextDelay]_vars

(***************************************************************************)
(* The gui program's two threads at statement level: the listener thread   *)
(* runs play_video and stop_current_video while it handles events, the     *)
(* Tk thread runs stop_current_video for the Stop and Stop VLC buttons.    *)
(* Both read and write VLCPlayer.current_process without a lock.  Here     *)
(* current_process is the number of a player process, or NoProcess, and    *)
(* thread.procs[p] tells whether process p is running.  Every song played  *)
(* is a new song of the set list; a process sent terminate() ends.         *)
(***************************************************************************)
MaxLaunches == 3

\* VLCPlayer.current_process = None
NoProcess == 0

InitRace ==
    /\ variant = "gui"
    /\ youtube = TRUE
    /\ settings = [ sync_video_to_song |-> TRUE, preload_videos |-> TRUE,
                    auto_quit_on_menu |-> TRUE, video_start_delay |-> 0 ]
    /\ game_state = 0
    /\ current_song = <<>>
    /\ current_artist = <<>>
    /\ pending_video = None
    /\ search_cache = <<>>
    /\ played_videos = {}
    /\ current_process = NoProcess
    /\ last = [kind |-> "none", data |-> <<>>, error |-> FALSE]
    /\ calls = <<>>
    /\ thread = [ pc |-> "idle", handler |-> "none", video |-> NoneId,
                  gui |-> "idle", stopped |-> FALSE, procs |-> <<>> ]

\* the statements of stop_current_video
StopStatements == {"test", "poll", "terminate", "wait", "finally"}

\* one statement of stop_current_video, run at `pc` by either thread with the
\* current_process `cp` it reads at that moment:
\*   test       `if self.current_process`
\*   poll       `and self.current_process.poll() is None` (outside the try: on None
\*              the AttributeError leaves stop_current_video)
\*   terminate  `self.current_process.terminate()` (on None: bare except, finally)
\*   wait       `self.current_process.wait(timeout=3)`
\*   finally    `self.current_process = None`
StopStatement(pc, cp, procs) ==
    IF pc = "test"
    THEN [pc |-> IF cp = NoProcess THEN "return" ELSE "poll", cp |-> cp, procs |-> procs]
    ELSE IF pc = "poll"
    THEN [pc |-> IF cp = NoProcess THEN "raise"
                 ELSE IF procs[cp] = "running" THEN "terminate" ELSE "return",
          cp |-> cp, procs |-> procs]
    ELSE IF pc = "terminate"
    THEN IF cp = NoProcess THEN [pc |-> "finally", cp |-> cp, procs |-> procs]
         ELSE [pc |-> "wait", cp |-> cp, procs |-> [procs EXCEPT ![cp] = "exited"]]
    ELSE IF pc = "wait"
    THEN [pc |-> "finally", cp |-> cp, procs |-> procs]
    ELSE [pc |-> "return", cp |-> NoProcess, procs |-> procs]

\* what a step of the two threads leaves alone
RaceFrame(kind) ==
    /\ last' = [kind |-> kind, data |-> <<>>, error |-> FALSE]
    /\ calls' = <<>>
    /\ UNCHANGED << variant, youtube, settings, current_song, current_artist, search_cache >>

\* the listener takes a datagram that makes it play a video or stop the player:
\*   state_1  a State event, menus to in-game, with a video pending (start_pending_video)
\*   song     the song event that completes a pair in-game (prepare_video, then
\*            start_pending_video at once)
\*   state_0  a State event, in-game to menus, with auto_quit_on_menu on
\* each begins with the first statement of stop_current_video
ListenerTakesEvent ==
    /\ thread.pc = "idle"
    /\ ~thread.stopped
    /\ \E handler \in {"state_1", "song", "state_0"} :
          /\ handler = "state_1" => game_state = 0
          /\ handler \in {"song", "state_0"} => game_state = 1
          /\ handler # "state_0" => Len(thread.procs) + 2 <= MaxLaunches
          /\ thread' = [thread EXCEPT !.pc = "test", !.handler = handler,
                                      !.video = IF handler = "state_0" THEN NoneId
                                                ELSE SetListId(Len(thread.procs) + 1)]
    /\ UNCHANGED << game_state, pending_video, played_videos, current_process >>
    /\ RaceFrame("listener")

\* the listener runs a statement of stop_current_video, called from play_video or
\* from handle_state_change
ListenerStops ==
    /\ thread.pc \in StopStatements
    /\ LET r == StopStatement(thread.pc, current_process, thread.procs)
       IN  /\ current_process' = r.cp
           /\ thread' = [thread EXCEPT
                           !.procs = r.procs,
                           !.pc = IF r.pc = "raise" THEN "except"
                                  ELSE IF r.pc # "return" THEN r.pc
                                  ELSE IF thread.handler = "state_0" THEN "end"
                                  ELSE "launch"]
    /\ UNCHANGED << game_state, pending_video, played_videos >>
    /\ RaceFrame("listener")

\* play_video: self.current_process = subprocess.Popen(vlc_cmd, ...)
ListenerLaunches ==
    /\ thread.pc = "launch"
    /\ current_process' = Len(thread.procs) + 1
    /\ thread' = [thread EXCEPT !.procs = Append(@, "running"), !.pc = "poll2"]
    /\ UNCHANGED << game_state, pending_video, played_videos >>
    /\ RaceFrame("listener")

\* play_video, after time.sleep(2): `if self.current_process.poll() is not None`;
\* on None the AttributeError is handled by play_video's `except Exception`
ListenerPolls ==
    /\ thread.pc = "poll2"
    /\ thread' = [thread EXCEPT !.pc =
                      IF current_process = NoProcess THEN "end"
                      ELSE IF thread.procs[current_process] = "running" THEN "add"
                      ELSE "relaunch"]
    /\ UNCHANGED << game_state, pending_video, played_videos, current_process >>
    /\ RaceFrame("listener")

\* play_video: self.current_process = subprocess.Popen([self.vlc_path, video_url])
ListenerRelaunches ==
    /\ thread.pc = "relaunch"
    /\ current_process' = Len(thread.procs) + 1
    /\ thread' = [thread EXCEPT !.procs = Append(@, "running"), !.pc = "add"]
    /\ UNCHANGED << game_state, pending_video, played_videos >>
    /\ RaceFrame("listener")

\* play_video: self.played_videos.add(video_id)
ListenerRemembers ==
    /\ thread.pc = "add"
    /\ played_videos' = played_videos \cup {thread.video}
    /\ thread' = [thread EXCEPT !.pc = "end"]
    /\ UNCHANGED << game_state, pending_video, current_process >>
    /\ RaceFrame("listener")

\* the rest of the handler once the player call has returned: handle_state_change
\* stores the new state (and drops the pending video on the way to the menus);
\* had stop_current_video raised, `except Exception: pass` skips these assignments
ListenerEndsEvent ==
    /\ thread.pc \in {"end", "except"}
    /\ game_state' = IF thread.pc = "except" \/ thread.handler = "song" THEN game_state
                     ELSE IF thread.handler = "state_1" THEN 1 ELSE 0
    /\ pending_video' = None
    /\ thread' = [thread EXCEPT !.pc = "idle", !.handler = "none", !.video = NoneId]
    /\ UNCHANGED << played_videos, current_process >>
    /\ RaceFrame(IF thread.pc = "end" /\ thread.handler = "state_0"
                 THEN "returned_to_menus" ELSE "listener")

\* the Stop VLC button (stop_vlc), or the Stop button (stop_listener, after
\* listener.stop() has ended the receive loop): vlc_player.stop_current_video()
GuiPressesStop ==
    /\ thread.gui = "idle"
    /\ \E stops_listener \in BOOLEAN :
          /\ stops_listener => ~thread.stopped
          /\ thread' = [thread EXCEPT !.gui = "test",
                                      !.stopped = @ \/ stops_listener]
    /\ UNCHANGED << game_state, pending_video, played_videos, current_process >>
    /\ RaceFrame("gui")

\* the Tk thread runs a statement of stop_current_video
GuiStops ==
    /\ thread.gui \in StopStatements
    /\ LET r == StopStatement(thread.gui, current_process, thread.procs)
       IN  /\ current_process' = r.cp
           /\ thread' = [thread EXCEPT
                           !.procs = r.procs,
                           !.gui = IF r.pc \in {"raise", "return"} THEN "idle" ELSE r.pc]
    /\ UNCHANGED << game_state, pending_video, played_videos >>
    /\ RaceFrame("gui")

\* a player process ends by itself
PlayerExits ==
    /\ \E p \in 1..Len(thread.procs) :
          /\ thread.procs[p] = "running"
          /\ thread' = [thread EXCEPT !.procs[p] = "exited"]
    /\ UNCHANGED << game_state, pending_video, played_videos, current_process >>
    /\ RaceFrame("exit")

NextRace ==
    \/ ListenerTakesEvent \/ ListenerStops \/ ListenerLaunches \/ ListenerPolls
    \/ ListenerRelaunches \/ ListenerRemembers \/ ListenerEndsEvent
    \/ GuiPressesStop \/ GuiStops \/ PlayerExits

SpecRace == InitRace /\ [][NextRace]_vars

(***************************************************************************)
(* Two songs are announced in the menus with sync on, one whose services    *)
(* are reliable (artist "P", the first song of the set list) and one whose *)
(* search or stream lookup can fail (artist "Q", song "B"); the game       *)
(* enters and leaves the song.  last.pair is the pair of names most        *)
(* recently completed, the pair the trailing test of process_packet last   *)
(* saw with both slots filled.                                             *)
(***************************************************************************)
InitStale ==
    /\ variant \in {"gui", "nogui"}
    /\ youtube = TRUE
    /\ settings \in { st \in SettingsSet : st.preload_videos /\ st.sync_video_to_song
                                            /\ st.auto_quit_on_menu
                                            /\ st.video_start_delay = 0 }
    /\ game_state = 0
    /\ current_song = <<>>
    /\ current_artist = <<>>
    /\ pending_video = None
    /\ search_cache = <<>>
    /\ played_videos = {}
    /\ current_process = "none"
    /\ last = [kind |-> "none", data |-> <<>>, error |-> FALSE, pair |-> <<>>]
    /\ calls = <<>>
    /\ thread = Listening

\* the accumulator as the trailing test of process_packet sees it once `data`, a
\* datagram that is not dropped, has been dispatched
Accumulated(data) ==
    << IF data[6] = RB3E_EVENT_SONG_ARTIST THEN PacketData(data) ELSE current_artist,
       IF data[6] = RB3E_EVENT_SONG_NAME THEN PacketData(data) ELSE current_song >>

\* one iteration of the receive loop
ReceiveTracked(data) ==
    \E t \in process_packet(Current, data) :
        /\ Becomes(t)
        /\ last' = [kind |-> "datagram", data |-> data, error |-> t.exc,
                    pair |-> IF Accumulated(data)[1] # <<>> /\ Accumulated(data)[2] # <<>>
                             THEN Accumulated(data) ELSE last.pair]
        /\ UNCHANGED << variant, youtube, settings, thread >>

ReceiveStaleArtist ==
    /\ current_artist = <<>>
    /\ \E artist \in {ArtistP, ArtistQ} : ReceiveTracked(Header(3, 1) \o artist)

ReceiveStaleSong ==
    /\ current_artist # <<>>
    /\ ReceiveTracked(Header(2, 1) \o (IF current_artist = ArtistP THEN SetListSong(1) ELSE SongB))

ReceiveStaleState == \E value \in {<<49>>, <<48>>} : ReceiveTracked(Header(1, 1) \o value)

NextStale == ReceiveStaleArtist \/ ReceiveStaleSong \/ ReceiveStaleState

SpecStale == InitStale /\ [][NextStale]_vars

(***************************************************************************)
(* Properties                                                              *)
(***************************************************************************)

\* C1 (as stated): with sync and preload on and the game in the menus, a song event
\* whose match and resolve succeed leaves a pending video and starts no player; when
\* the next datagram is a State event that moves menus to in-game, the player is
\* started exactly once, for that record.
C1_StartsExactlyOnce ==
    [][ /\ PrepareInMenuStep =>
             pending_video' # None /\ ~HasCall(calls', "PlayerStart")
        /\ (PreparedInMenu /\ MenuToInGameStep) =>
             /\ Cardinality(CallsAt(calls', "PlayerStart")) = 1
             /\ Cardinality(StartsOf(calls', pending_video[2])) = 1 ]_vars

\* C1 (amended): as C1, but the player is started exactly once when the record's
\* video id is not in played_videos, and at most once when it is.
C1_StartsOnceUnlessPlayed ==
    [][ /\ PrepareInMenuStep =>
             pending_video' # None /\ ~HasCall(calls', "PlayerStart")
        /\ (PreparedInMenu /\ MenuToInGameStep) =>
             /\ Cardinality(CallsAt(calls', "PlayerStart")) <= 1
             /\ CallsAt(calls', "PlayerStart") = StartsOf(calls', pending_video[2])
             /\ pending_video[2] \notin played_videos =>
                   Cardinality(StartsOf(calls', pending_video[2])) = 1 ]_vars

\* C1 witness: a State "1" datagram has just moved the game to in-game and started
\* the pending video, with sync on.
C1_Witness ==
    /\ last.kind = "datagram" /\ IsEvent(last.data, RB3E_EVENT_STATE)
    /\ game_state = 1 /\ SyncEnabled /\ pending_video = None
    /\ \E i \in CallsAt(calls, "start_pending_video") : calls[i].res = "handle_state_change"
    /\ \E i \in CallsAt(calls, "PlayerStart") : calls[i].res = "running"

\* C2: "song starting" is logged exactly by the State events that move the state
\* from menus (0) to in-game (1), and "returned to menus" exactly by those that move
\* it from in-game to menus; no other step logs either, and none logs one twice.
C2_TriggersFollowTransitions ==
    [][ /\ Logged(calls', "song_starting") = (IF MenuToInGameStep THEN 1 ELSE 0)
        /\ Logged(calls', "returned_to_menus") = (IF InGameToMenuStep THEN 1 ELSE 0) ]_vars

\* C2 witness: the game is back in the menus after a song, "returned to menus" logged.
C2_Witness ==
    /\ last.kind = "datagram" /\ IsEvent(last.data, RB3E_EVENT_STATE)
    /\ game_state = 0 /\ Logged(calls, "returned_to_menus") = 1
    /\ played_videos # {}

\* C3 (as stated): whenever the pipeline was invoked while processing a datagram,
\* both accumulator slots are empty afterwards, whatever the outcome.
C3_SlotsClearedAfterPipeline ==
    PipelineRan(calls) => (current_song = <<>> /\ current_artist = <<>>)

\* C4 (as stated): the pipeline is invoked only by the song event that completes the
\* pair; no Alive, State or Unknown event, and no song event arriving while the pair
\* of an ended attempt is still there, invokes it again.
C4_NoAutomaticRetry ==
    [][ (ReceivedStep /\ PipelineRan(calls')) =>
            /\ IsSongEvent(last'.data)
            /\ (current_song = <<>> \/ current_artist = <<>>) ]_vars

\* C5 (as stated): a playback request for a video id that is in played_videos never
\* launches the player.
C5_PlayedIsNotReplayed ==
    [][ ReceivedStep => \A id \in played_videos : StartsOf(calls', id) = {} ]_vars

\* C6: played_videos never holds more than 10 ids.
C6_PlayedAtMostCap == Cardinality(played_videos) <= PlayedCap

\* C6 witness: played_videos is full and the video launched last has been popped.
C6_Witness ==
    /\ Cardinality(played_videos) = PlayedCap
    /\ \E i \in CallsAt(calls, "PlayerStart") :
          calls[i].res = "running" /\ calls[i].id \notin played_videos

\* C7 (as stated): game_state is always menus (0) or in-game (1).
C7_GameStateIsMenuOrInGame == game_state \in {0, 1}

\* C8: only a State event changes game_state; an Alive, SongName, SongArtist or
\* unknown event leaves it as it was, whatever pipeline it triggers.
C8_OnlyStateEventsChangeGameState ==
    [][ game_state' # game_state => StateStep ]_vars

\* C8 witness: a song event ran the whole pipeline, player launch included, while
\* the game was in-game.
C8_Witness ==
    /\ last.kind = "datagram" /\ IsSongEvent(last.data)
    /\ PipelineRan(calls) /\ HasCall(calls, "PlayerStart")
    /\ game_state = 1

\* C9 (as stated): after a State event that moved the state from in-game to menus,
\* pending_video is None.
C9_NoPendingAfterReturnToMenu ==
    [][ InGameToMenuStep => pending_video' = None ]_vars

\* C10: a State event that moves menus to in-game runs start_pending_video for the
\* pending record when there is one and sync is on; otherwise its handler starts
\* nothing.
C10_TransitionStartsPending ==
    [][ MenuToInGameStep =>
          LET dc == DispatchCalls(calls')
          IN  IF pending_video # None /\ settings.sync_video_to_song
              THEN /\ Cardinality(CallsAt(dc, "start_pending_video")) = 1
                   /\ \A i \in CallsAt(dc, "start_pending_video") :
                         dc[i].id = pending_video[2] /\ dc[i].res = "handle_state_change"
                   /\ HasCall(dc, "PlayerStart") \/ Logged(dc, "already_played") = 1
              ELSE /\ ~HasCall(dc, "start_pending_video")
                   /\ ~HasCall(dc, "PlayerStart")
                   /\ ~HasCall(dc, "Sleep") ]_vars

\* C10 witness: the transition to in-game found a pending video, ran
\* start_pending_video for it, and the player skipped it as already played.
C10_Witness ==
    /\ last.kind = "datagram" /\ IsEvent(last.data, RB3E_EVENT_STATE)
    /\ game_state = 1 /\ pending_video = None
    /\ \E i \in CallsAt(DispatchCalls(calls), "start_pending_video") :
          calls[i].res = "handle_state_change" /\ calls[i].id \in played_videos
    /\ Logged(DispatchCalls(calls), "already_played") = 1

\* what the claims call GameState, the accumulator, PendingVideo, SearchCache and PlayedSet
CoreState ==
    << game_state, current_song, current_artist, pending_video, search_cache, played_videos >>

\* C11: a datagram shorter than 8 bytes, or with another magic number, or with
\* another protocol version is dropped: the game state, the accumulator, the pending
\* video, the search cache, the played set and the player are as before, nothing is
\* called or logged, and process_packet ends without an exception.
C11_MalformedIsDropped ==
    [][ (ReceivedStep /\ ~IsValidPacket(last'.data)) =>
            /\ UNCHANGED CoreState
            /\ UNCHANGED current_process
            /\ calls' = <<>>
            /\ ~last'.error ]_vars

\* C11 witness: a 9-byte datagram with the wrong magic number, which would have been
\* a State "1" event, was dropped while the game was in the menus with a video pending.
C11_Witness ==
    /\ last.kind = "datagram" /\ Len(last.data) >= 8
    /\ Magic(last.data) # RB3E_EVENTS_MAGIC
    /\ game_state = 0 /\ pending_video # None /\ calls = <<>>

\* the listener thread has left start_listening
ThreadEnded == thread.pc \in {"done", "failed"}

\* the processing of the last datagram met a failure of the pipeline
FailureIn(cs) ==
    \E i \in 1..Len(cs) :
        \/ cs[i].op = "Search" /\ cs[i].res \in {"raise", "empty"}
        \/ cs[i].op = "Resolve" /\ cs[i].res = "none"
        \/ cs[i].op = "PlayerStart" /\ cs[i].res \in {"error", "fallback_error"}

\* C12: whatever happens while a datagram is processed (a decode failure, no match,
\* a resolve failure, a player failure, an error raised by a collaborator),
\* process_packet returns to the loop test, and the loop test of a running loop
\* goes on to the next recvfrom; the loop is left only by the loop test after
\* stop(), or by the end of the process.
C12_FailuresDoNotEndLoop ==
    [][ /\ (thread.pc = "process" /\ thread'.pc # "process") =>
              (thread'.pc = "loop" \/ (thread'.pc = "done" /\ thread.stop_called))
        /\ (thread.pc = "loop" /\ thread'.pc # "loop" /\ thread.running) =>
              (thread'.pc = "recv" \/ (thread'.pc = "done" /\ thread.stop_called))
        /\ (thread.pc \in {"loop", "recv", "process"} /\ thread'.pc \in {"done", "failed"}) =>
              thread.stop_called ]_vars

\* C12 witness: the search raised while the last datagram was processed, and the
\* thread is back at the loop test with `running` set and a datagram waiting.
C12_Witness ==
    /\ last.kind = "datagram" /\ FailureIn(calls)
    /\ \E i \in CallsAt(calls, "Search") : calls[i].res = "raise"
    /\ thread.pc = "loop" /\ thread.running /\ ~thread.stop_called
    /\ thread.queue # <<>>

\* C13 (as stated): when start_listening has ended in its `except Exception` clause
\* (the bind failed), the starter does not take the listener for running.
C13_BindFailureSurfaced == thread.pc = "failed" => ~thread.is_running

\* C14 (as stated): once stop() has been called, the listener thread leaves
\* start_listening.
C14_StopEndsLoop == thread.stop_called ~> ThreadEnded

\* a is a prefix of b
IsPrefix(a, b) == Len(a) <= Len(b) /\ SubSeq(b, 1, Len(a)) = a

\* C15: the game state, the accumulator, the pending video, the search cache and
\* the played set change only in the step in which the loop processes the datagram
\* it holds; while it holds one, it takes no other from the socket (arrivals wait in
\* the buffer), and a datagram is taken only by recvfrom.
C15_OneDatagramAtATime ==
    [][ /\ CoreState' # CoreState =>
              (thread.pc = "process" /\ ReceivedStep /\ last'.data = thread.data)
        /\ (thread.pc = "process" /\ thread'.pc = "process") =>
              (thread'.data = thread.data /\ UNCHANGED CoreState
               /\ (IsPrefix(thread.queue, thread'.queue) \/ thread.stop_called'))
        /\ thread'.data # thread.data =>
              \/ thread.pc = "recv" /\ thread'.pc = "process" /\ thread.data = <<>>
              \/ thread.pc = "process" /\ thread'.data = <<>> /\ ReceivedStep ]_vars

\* C15 witness: a datagram arrived and the Stop VLC button was pressed while the
\* loop held another datagram; the pending video is still there.
C15_Witness ==
    /\ thread.pc = "process" /\ thread.queue # <<>>
    /\ last.kind = "stop_vlc" /\ pending_video # None

\* C16 (as stated): when the same pair has been fed twice in a row with no State
\* event between, the pipeline has been invoked exactly twice; and if the first
\* search returned a video id, the second lookup returned the same id and issued no
\* Search call.
C16_TwicePipelineOnceSearched ==
    Len(last.fed) = 2 * Feeds =>
        /\ Len(last.found) = Feeds
        /\ last.found[1] # NoneId => (last.found[2] = last.found[1] /\ last.searches[2] = 0)

\* C17: pending_video is None or one record <<stream_url, video_id, artist, song>>.
\* It is set (from None, or over an older record) only by a prepare_video whose
\* search returned a video id and whose get_stream_url returned a url, to a record of
\* that id; it goes from a record to None only in a step that ran start_pending_video
\* or in a State event that moved the game from in-game to menus.
C17_PendingLifecycle ==
    [][ /\ pending_video' # None => Len(pending_video') = 4
        /\ (pending_video' # None /\ pending_video' # pending_video) =>
              /\ ReceivedStep
              /\ HasCall(calls', "prepare_video") /\ ResolvedUrl(calls')
              /\ pending_video'[2] = FoundId(calls') /\ FoundId(calls') # NoneId
              /\ pending_video'[1] = StreamUrl(FoundId(calls'))
        /\ (pending_video # None /\ pending_video' = None) =>
              /\ ReceivedStep
              /\ HasCall(calls', "start_pending_video") \/ InGameToMenuStep ]_vars

\* C17 witness: prepare_video has just matched and resolved video 2 and left it
\* pending, the game being neither in the menus nor in-game for the program; an
\* earlier pending record had been started.
C17_Witness ==
    /\ last.kind = "datagram" /\ IsSongEvent(last.data)
    /\ HasCall(calls, "prepare_video") /\ ResolvedUrl(calls)
    /\ pending_video = << StreamUrl(2), 2, ArtistQ, SongB >>
    /\ FoundId(calls) = 2
    /\ game_state \notin {0, 1} /\ played_videos # {}

\* the bytes of the datagram at offsets 8 up to 8+n, n the declared length: as
\* many as the datagram has
PayloadSlice(data) ==
    LET n == data[7]
        have == Len(data) - 8
    IN  [i \in 1..(IF n < have THEN n ELSE have) |-> data[8 + i]]

\* b without its trailing NUL bytes: the prefix of b that is empty or ends in a
\* byte other than NUL, and is followed by NUL bytes only
WithoutTrailingNuls(b) ==
    LET k == CHOOSE m \in 0..Len(b) :
                 /\ m = 0 \/ b[m] # 0
                 /\ \A j \in (m + 1)..Len(b) : b[j] = 0
    IN  [i \in 1..k |-> b[i]]

\* C18: the payload text of a valid packet is the text of the bytes at offsets 8 up
\* to 8+n of the datagram (fewer when the datagram is shorter) without their
\* trailing NUL bytes; a SongName packet stores it as the song name, so length 5
\* and the bytes 'Hello' followed by NULs store 'Hello'.
C18_PayloadIsStrippedSlice ==
    [][ (ReceivedStep /\ IsEvent(last'.data, RB3E_EVENT_SONG_NAME) /\ current_artist = <<>>) =>
            /\ current_song' = DecodeUtf8Ignore(WithoutTrailingNuls(PayloadSlice(last'.data)))
            /\ (\A i \in 1..Len(last'.data) : last'.data[i] < 128) =>
                  current_song' = WithoutTrailingNuls(PayloadSlice(last'.data))
            /\ last'.data = Header(RB3E_EVENT_SONG_NAME, 5) \o Hello \o <<0, 0, 0>> =>
                  current_song' = Hello ]_vars

\* C18 witness: the packet of type 2 and length 5 with 'Hello' and three NUL bytes
\* has been received, and the song name is 'Hello'.
C18_Witness ==
    /\ last.kind = "datagram"
    /\ last.data = Header(RB3E_EVENT_SONG_NAME, 5) \o Hello \o <<0, 0, 0>>
    /\ current_song = Hello

\* the state value the claim gives for a payload text
DecodedStateValue(text) ==
    IF text # <<>> /\ \A i \in 1..Len(text) : text[i] \in DecimalDigits THEN IntOf(text)
    ELSE IF text # <<>> THEN text[1]
    ELSE 0

\* C19 (as stated): a State event stores as the game state the integer value of a
\* payload of decimal digits, the code of the first character of any other non-empty
\* payload, and 0 for the empty payload.
C19_StateValueDecoding ==
    [][ StateStep => game_state' = DecodedStateValue(PacketData(last'.data)) ]_vars

\* the datagram is a valid packet of an event type the program has no branch for
IsUnknownEvent(data) ==
    /\ IsValidPacket(data)
    /\ data[6] \notin { RB3E_EVENT_ALIVE, RB3E_EVENT_STATE,
                         RB3E_EVENT_SONG_NAME, RB3E_EVENT_SONG_ARTIST }

\* C20 (as stated): processing a valid packet of an unknown event type changes none
\* of the game state, the accumulator, the pending video, the search cache and the
\* played set, and calls no collaborator.
C20_UnknownEventIsIgnored ==
    [][ (ReceivedStep /\ IsUnknownEvent(last'.data)) =>
            (UNCHANGED CoreState /\ calls' = <<>>) ]_vars

\* the first PlayedCap videos of the set list, which are played, and so inserted,
\* in the order of the list
FirstPlayed == { SetListId(i) : i \in 1..PlayedCap }

\* C21 (as stated): when played_videos holds the first 10 videos of the set list
\* and the 11th is launched, the id that leaves the set is the one inserted first.
C21_EvictsOldest ==
    [][ ( /\ ReceivedStep
          /\ played_videos = FirstPlayed
          /\ \E i \in StartsOf(calls', SetListId(PlayedCap + 1)) : calls'[i].res = "running" ) =>
            played_videos' = (FirstPlayed \cup {SetListId(PlayedCap + 1)}) \ {SetListId(1)} ]_vars

\* the Search calls of a call record, in the order they were made
SearchCalls(cs) == SelectSeq(cs, LAMBDA e : e.op = "Search")

\* the SongName datagram that carries the given title
SongNamePacket(song) == Header(RB3E_EVENT_SONG_NAME, Len(song)) \o song

\* the title a SongName datagram of this step carried, as a one-element set
ReceivedTitle == { PacketData(last'.data) }

\* "Foo Song official music video"
FooSongOfficialMusicVideo ==
    <<70, 111, 111, 32, 83, 111, 110, 103, 32, 111, 102, 102, 105, 99, 105, 97, 108, 32,
      109, 117, 115, 105, 99, 32, 118, 105, 100, 101, 111>>

\* C22: the artist "Foo feat. Bar" with the title "Song (Remastered)" normalizes to
\* "Foo" and "Song", and when that pair is searched the first query sent to Search
\* is "Foo Song official music video".
C22_FooQueryPlan ==
    [][ ( /\ ReceivedStep
          /\ current_artist = FooFeatBar
          /\ last'.data = SongNamePacket(SongRemastered)
          /\ SearchCalls(calls') # <<>> ) =>
            /\ \A song \in ReceivedTitle : clean_search_terms(current_artist, song) = <<Foo, Song>>
            /\ SearchCalls(calls')[1].txt = FooSongOfficialMusicVideo ]_vars

C22_Witness ==
    /\ last.data = SongNamePacket(SongRemastered)
    /\ pending_video # None
    /\ pending_video[3] = FooFeatBar /\ pending_video[4] = SongRemastered
    /\ SearchCalls(calls) # <<>>
    /\ SearchCalls(calls)[1].txt = FooSongOfficialMusicVideo

\* what follows "<artist> <title>" in the four queries of the plan, in order:
\* " official music video", " music video", " official", ""
PlanSuffixes ==
    << <<32, 111, 102, 102, 105, 99, 105, 97, 108, 32, 109, 117, 115, 105, 99, 32, 118, 105, 100, 101, 111>>,
       <<32, 109, 117, 115, 105, 99, 32, 118, 105, 100, 101, 111>>,
       <<32, 111, 102, 102, 105, 99, 105, 97, 108>>,
       <<>> >>

\* this step ran the match pipeline for a pair that was not in the cache
CacheMissStep ==
    /\ ReceivedStep
    /\ PipelineRan(calls')
    /\ search_cache = <<>>

\* C23: on a cache miss Search is called with the queries "<artist> <title> official
\* music video", "... music video", "... official", "<artist> <title>" in this order;
\* a query is issued only after every earlier one returned no candidate, and the
\* plan ends with the first query that returns a candidate.
C23_QueryPlanInOrder ==
    [][ CacheMissStep =>
          \A sc \in {SearchCalls(calls')}, song \in ReceivedTitle :
          \A pair \in {clean_search_terms(current_artist, song)} :
              /\ Len(sc) \in 1..4
              /\ \A j \in 1..Len(sc) :
                    /\ sc[j].txt = pair[1] \o <<32>> \o pair[2] \o PlanSuffixes[j]
                    /\ j < Len(sc) => sc[j].items = <<>> /\ sc[j].res = "empty"
              /\ Len(sc) < 4 => sc[Len(sc)].res \in {"items", "raise"} ]_vars

C23_Witness ==
    LET sc == SearchCalls(calls)
    IN  /\ Len(sc) = 4
        /\ \A j \in 1..3 : sc[j].res = "empty"
        /\ sc[4].items # <<>>
        /\ sc[4].txt = Foo \o <<32>> \o Song
        /\ search_cache # <<>>

\* the words that make a channel count as official: "official", "records", "music"
ChannelWords ==
    { <<111, 102, 102, 105, 99, 105, 97, 108>>,
      <<114, 101, 99, 111, 114, 100, 115>>,
      <<109, 117, 115, 105, 99>> }

\* the candidate qualifies for the normalized pair <<artist, title>>, letter case ignored
Qualifies(candidate, pair) ==
    \/ /\ Contains(Lower(pair[2]), Lower(candidate.title))
       /\ Contains(Lower(pair[1]), Lower(candidate.title))
    \/ \E word \in ChannelWords : Contains(word, Lower(candidate.channel))
    \/ Contains(Lower(pair[1]), Lower(candidate.channel))

\* the positions of the qualifying candidates of a list
QualifyingAt(items, pair) == { i \in 1..Len(items) : Qualifies(items[i], pair) }

\* this step ran a search whose last query returned candidates
CandidatesStep ==
    /\ ReceivedStep
    /\ SearchCalls(calls') # <<>>
    /\ SearchCalls(calls')[Len(SearchCalls(calls'))].items # <<>>

\* C24: from the candidate list of the first query that returns candidates the
\* matcher returns the first candidate whose title contains both the normalized song
\* and the normalized artist or whose channel contains "official", "records", "music"
\* or the artist; when none qualifies it returns the first candidate of that list.
C24_FirstQualifyingElseFirst ==
    [][ CandidatesStep =>
          \A sc \in {SearchCalls(calls')}, song \in ReceivedTitle :
          \A pair \in {clean_search_terms(current_artist, song)} :
              LET items == sc[Len(sc)].items
                  q == QualifyingAt(items, pair)
              IN  /\ \A j \in 1..(Len(sc) - 1) : sc[j].items = <<>>
                  /\ FoundId(calls') =
                        IF q = {} THEN items[1].id
                        ELSE items[CHOOSE i \in q : \A j \in q : i <= j].id ]_vars

\* the first candidate ("Song" on channel "y") does not qualify, the second
\* ("Z" on channel "Foo Fans") does and is the one returned
C24_Witness ==
    /\ SearchCalls(calls) # <<>>
    /\ LET items == SearchCalls(calls)[Len(SearchCalls(calls))].items
       IN  /\ Len(items) = 2
           /\ items[1].id = 8 /\ items[2].id = 4
    /\ FoundId(calls) = 4
    /\ pending_video # None /\ pending_video[2] = 4

\* "foo - song"
FooSongKey == <<102, 111, 111, 32, 45, 32, 115, 111, 110, 103>>

\* every query of the plan was issued in this step and none returned a candidate
NoCandidateStep ==
    /\ ReceivedStep
    /\ Len(SearchCalls(calls')) = 4
    /\ \A j \in 1..4 : SearchCalls(calls')[j].res = "empty"

\* C25: the cache gains an entry only in a step whose search returned candidates,
\* and then the entry maps the lowercase normalized key "artist - title" to the
\* identifier the search returned; when no query of the plan returns a candidate
\* no match is reported (nothing is resolved) and the cache is unchanged.
C25_CacheOnlyOnSuccess ==
    [][ /\ search_cache' # search_cache =>
              /\ CandidatesStep
              /\ DOMAIN search_cache' = DOMAIN search_cache \cup {FooSongKey}
              /\ search_cache'[FooSongKey] = FoundId(calls')
              /\ \A k \in DOMAIN search_cache : search_cache'[k] = search_cache[k]
        /\ CandidatesStep => FooSongKey \in DOMAIN search_cache'
        /\ NoCandidateStep =>
              /\ search_cache' = search_cache
              /\ ~HasCall(calls', "Resolve")
              /\ pending_video' = pending_video ]_vars

\* "FOO ft. X" / "Song (Remastered)" was matched to candidate 4 and cached as "foo - song"
C25_Witness ==
    /\ DOMAIN search_cache = {FooSongKey}
    /\ search_cache[FooSongKey] = 4
    /\ SearchCalls(calls) # <<>>
    /\ FoundId(calls) = 4
    /\ pending_video # None /\ pending_video[3] = FooFtX

\* "q - b", the cache key of the artist "Q" with the title "B"
QBKey == <<113, 32, 45, 32, 98>>

\* this step matched a video and Resolve returned no url for it
ResolveFailedStep ==
    /\ ReceivedStep
    /\ \E i \in CallsAt(calls', "Resolve") : calls'[i].res = "none"

\* C26: when the match succeeds but Resolve returns no url, the pending video and
\* the played set are unchanged, the player is not called, and the cache holds the
\* matched identifier and no failure marker; whenever the pair is attempted with its
\* key in the cache, Resolve is called again for the cached identifier.
C26_ResolveFailureLeavesNoTrace ==
    [][ /\ ResolveFailedStep =>
              /\ pending_video' = pending_video
              /\ played_videos' = played_videos
              /\ current_process' = current_process
              /\ ~HasCall(calls', "PlayerStart")
              /\ ~HasCall(calls', "PlayerStop")
              /\ ~HasCall(calls', "start_pending_video")
              /\ FoundId(calls') # NoneId
              /\ QBKey \in DOMAIN search_cache'
              /\ search_cache'[QBKey] = FoundId(calls')
        /\ (ReceivedStep /\ PipelineRan(calls') /\ QBKey \in DOMAIN search_cache) =>
              /\ SearchCalls(calls') = <<>>
              /\ HasCall(calls', "Resolve")
              /\ FoundId(calls') = search_cache[QBKey] ]_vars

\* an attempt served from the cache whose Resolve failed (again), while an
\* earlier pending video is still there
C26_Witness ==
    /\ PipelineRan(calls)
    /\ SearchCalls(calls) = <<>>
    /\ \E i \in CallsAt(calls, "Resolve") : calls[i].res = "none" /\ calls[i].id = 2
    /\ search_cache[QBKey] = 2
    /\ pending_video # None
    /\ played_videos # {}

\* this step ran prepare_video with success while a record was already pending
ReplacePendingStep ==
    /\ ReceivedStep
    /\ pending_video # None
    /\ HasCall(calls', "prepare_video") /\ ResolvedUrl(calls')

\* C27: when prepare_video succeeds while another record is pending, the new record
\* takes its place (and is itself started at once when the game is in-game), and the
\* old record is not passed to the player.
C27_NewPendingReplacesOld ==
    [][ ReplacePendingStep =>
          \A song \in ReceivedTitle, id \in {FoundId(calls')} :
              /\ pending_video' =
                    IF game_state' = 1 THEN None
                    ELSE <<StreamUrl(id), id, current_artist, song>>
              /\ \A i \in CallsAt(calls', "start_pending_video") : calls'[i].id = id
              /\ \A i \in CallsAt(calls', "PlayerStart") : calls'[i].id = id
              /\ played_videos' \subseteq played_videos \cup {id} ]_vars

\* the second song of the set list is pending; the first was matched earlier and,
\* nothing having been played, was the pending record that the second replaced
C27_Witness ==
    /\ pending_video = <<StreamUrl(SetListId(2)), SetListId(2), ArtistP, SetListSong(2)>>
    /\ HasCall(calls, "prepare_video") /\ ResolvedUrl(calls)
    /\ SearchKey(ArtistP, SetListSong(1)) \in DOMAIN search_cache
    /\ played_videos = {}

\* this step ran prepare_video with success while the game was in-game
\* (a State event of the same datagram is handled before prepare_video runs)
PrepareInGameStep ==
    /\ ReceivedStep
    /\ game_state' = 1
    /\ HasCall(calls', "prepare_video") /\ ResolvedUrl(calls')

\* C28: when prepare_video succeeds while the game is already in-game,
\* start_pending_video is invoked for the new record while the same datagram is
\* processed: the player is asked to start it (or it is skipped as already played)
\* and nothing is left pending.
C28_InGamePrepareStartsAtOnce ==
    [][ PrepareInGameStep =>
          \A id \in {FoundId(calls')} :
              /\ \E i \in CallsAt(calls', "start_pending_video") :
                    /\ calls'[i].id = id
                    /\ calls'[i].res = "prepare_video"
                    /\ \E j \in CallsAt(calls', "PlayerStart") \cup CallsAt(calls', "Log") :
                          /\ j > i
                          /\ calls'[j].id = id
                          /\ calls'[j].op = "Log" => calls'[j].res = "already_played"
              /\ pending_video' = None ]_vars

C28_Witness ==
    /\ game_state = 1
    /\ IsSongEvent(last.data)
    /\ HasCall(calls, "prepare_video") /\ ResolvedUrl(calls)
    /\ \E i \in CallsAt(calls, "start_pending_video") : calls[i].res = "prepare_video"
    /\ \E j \in CallsAt(calls, "PlayerStart") : calls[j].res = "running"
    /\ current_process = "running"
    /\ pending_video = None

\* a song event of this step completed the pair while syncToStart was disabled
UnsyncedPairStep ==
    /\ ReceivedStep
    /\ IsSongEvent(last'.data)
    /\ PipelineRan(calls')
    /\ ~settings.sync_video_to_song

\* the pipeline of this step called the player for the video it matched and
\* resolved (the gui player may skip a video it has already played), and did not
\* call it when nothing was resolved
PlayedDirectly ==
    /\ HasCall(calls', "play_current_song")
    /\ ~HasCall(calls', "prepare_video")
    /\ ~HasCall(calls', "start_pending_video")
    /\ ResolvedUrl(calls') =>
          \E j \in CallsAt(calls', "PlayerStart") \cup CallsAt(calls', "Log") :
              /\ calls'[j].id = FoundId(calls')
              /\ calls'[j].op = "Log" => calls'[j].res = "already_played"
    /\ ~ResolvedUrl(calls') => ~HasCall(calls', "PlayerStart")

\* C29 (as stated): with syncToStart disabled, completing a pair runs match and
\* resolve and calls the player directly while the datagram is processed, and the
\* pending video is empty before and after.
C29_PendingStaysEmpty ==
    [][ UnsyncedPairStep =>
          /\ PlayedDirectly
          /\ pending_video = None
          /\ pending_video' = None ]_vars

\* C29 (amended): with syncToStart disabled, completing a pair runs match and
\* resolve and calls the player directly while the datagram is processed, and the
\* pending video is left as it was: it is not populated, and a record prepared
\* before syncToStart was disabled stays pending.
C29_PendingUntouched ==
    [][ UnsyncedPairStep =>
          /\ PlayedDirectly
          /\ pending_video' = pending_video ]_vars

\* syncToStart was disabled while a video was pending; the next pair is played directly
C29_Witness ==
    /\ ~settings.sync_video_to_song
    /\ last.kind = "datagram" /\ IsSongEvent(last.data)
    /\ HasCall(calls, "play_current_song")
    /\ \E j \in CallsAt(calls, "PlayerStart") : calls[j].res = "running"
    /\ current_process = "running"
    /\ pending_video # None

\* the outcome of the last start_pending_video of a call record: what the player
\* answered ("running", "fallback", "fallback_error", "error"), or "already_played"
StartOutcome(cs) ==
    LET i == CHOOSE k \in CallsAt(cs, "start_pending_video") :
                 \A m \in CallsAt(cs, "start_pending_video") : m <= k
        after == { j \in (i + 1)..Len(cs) : cs[j].op = "PlayerStart" \/ cs[j].res = "already_played" }
    IN  IF after = {} THEN "none"
        ELSE cs[CHOOSE j \in after : \A m \in after : j <= m].res

\* C30: when start_pending_video has run for a pending record, the pending video is
\* empty whatever the outcome: the player started, the video was skipped as already
\* played, or the player could not be started.
C30_StartLeavesNothingPending ==
    [][ (ReceivedStep /\ HasCall(calls', "start_pending_video")) =>
          /\ StartOutcome(calls') \in
                {"running", "fallback", "fallback_error", "error", "already_played"}
          /\ pending_video' = None ]_vars

\* the player could not be started for the pending record, which is gone all the same
C30_Witness ==
    /\ HasCall(calls, "start_pending_video")
    /\ StartOutcome(calls) = "error"
    /\ current_process # "running"
    /\ pending_video = None

\* this step processed a State event whose decoded value is the state the game was
\* already in, Menu (0) or InGame (1)
SameStateStep ==
    /\ StateStep
    /\ game_state \in {0, 1}
    /\ ~StateValueRaises(PacketData(last'.data))
    /\ StateValue(PacketData(last'.data)) = game_state

\* C31 (as stated): a State event whose decoded value equals the current state has
\* no side effect: nothing is emitted, no collaborator is called, and the pending
\* video, the accumulator, the search cache, the played set and the player are unchanged.
C31_SameStateHasNoEffect ==
    [][ SameStateStep =>
            /\ UNCHANGED CoreState
            /\ UNCHANGED current_process
            /\ calls' = <<>> ]_vars

\* an outcome of process_packet without the log line "Starting video ...s early"
Quiet(t) == [t EXCEPT !.calls = SelectSeq(@, LAMBDA e : e.res # "starting_early")]

Running == { p \in 1..Len(thread.procs) : thread.procs[p] = "running" }

\* C33 (as stated): with autoStopOnMenu on, once the State event that takes the game
\* from in-game to the menus has been processed, no player process started before
\* it is still running, whatever the interleaving of the front end's stop requests
\* with the listener thread.
C33_NoPlayerLeftAfterReturnToMenu ==
    last.kind = "returned_to_menus" => Running = {}

\* the step handles a State event whose Menu-to-InGame transition starts the pending video
TransitionStartStep ==
    \E i \in CallsAt(calls', "start_pending_video") : calls'[i].res = "handle_state_change"

\* C34 (as stated): the record a Menu-to-InGame transition starts was prepared for the
\* pair of names completed most recently; a record prepared for an earlier pair is
\* not played after the search or the stream lookup of a later pair has failed.
C34_StartedRecordIsOfLatestPair ==
    [][ TransitionStartStep => << pending_video[3], pending_video[4] >> = last.pair ]_vars

\* the step handles a State event that decodes to 1 while the stored state is not 1
SongStartFromAnyStep ==
    /\ last'.kind = "datagram"
    /\ IsEvent(last'.data, RB3E_EVENT_STATE)
    /\ \A packet_data \in { PacketData(last'.data) } :
          ~StateValueRaises(packet_data) /\ StateValue(packet_data) = 1
    /\ game_state # 1

\* C35 (as stated): a State event that decodes to 1, handled while the stored state is
\* anything other than 1, logs "song starting" and starts the pending video when one
\* exists and sync is on.
C35_SongStartsFromAnyOtherState ==
    [][ SongStartFromAnyStep =>
           /\ Logged(calls', "song_starting") = 1
           /\ (pending_video # None /\ settings.sync_video_to_song) =>
                  \E i \in CallsAt(calls', "start_pending_video") :
                      calls'[i].res = "handle_state_change" ]_vars


\* C36 (as stated): with sync (and preload) on and the settings never changed, after
\* every datagram: in-game, no video is pending.
C36_NothingPendingInGame ==
    (settings.sync_video_to_song /\ game_state = 1) => pending_video = None


\* C37: with sync and preload on, the player is launched only by the State event that
\* moves the game from the menus to in-game, or by prepare_video once the stored state
\* is in-game (the state the step ends in); the pair is never searched and played
\* directly, and nothing is launched in the menus.
C37_StartsOnlyInGameWhenSynced ==
    [][ (settings.sync_video_to_song /\ settings.preload_videos
             /\ HasCall(calls', "PlayerStart")) =>
           /\ ~HasCall(calls', "play_current_song")
           /\ game_state' = 1
           /\ \A i \in CallsAt(calls', "start_pending_video") :
                 calls'[i].res = "handle_state_change" => MenuToInGameStep ]_vars

C37_Witness ==
    /\ variant = "nogui"
    /\ settings.sync_video_to_song /\ settings.preload_videos
    /\ last.kind = "datagram" /\ IsEvent(last.data, RB3E_EVENT_STATE)
    /\ game_state = 1
    /\ \E i \in CallsAt(calls, "start_pending_video") : calls[i].res = "handle_state_change"
    /\ \E j \in CallsAt(calls, "PlayerStart") : calls[j].res = "fallback"


\* C38 (as stated): right after a playback request that launched the player for a
\* video, the id of that video is in played_videos; the pop over capacity never
\* removes the id that was just added.
C38_StartedIdIsRemembered ==
    [][ \A i \in CallsAt(calls', "PlayerStart") :
            calls'[i].res \in {"running", "fallback"} => calls'[i].id \in played_videos' ]_vars


\* C39 (as stated): while one datagram is processed, Search is called at most 4 times, the stream
\* lookup at most once and the player is launched at most once.
C39_BoundedCallsPerDatagram ==
    /\ Cardinality(CallsAt(calls, "Search")) <= 4
    /\ Cardinality(CallsAt(calls, "Resolve")) <= 1
    /\ Cardinality(CallsAt(calls, "PlayerStart")) <= 1

=============================================================================
